---- MODULE Spec2Model ----
(***************************************************************************)
(* Field-to-record matching engine of superfill.ai: the rule-based         *)
(* FallbackMatcher, the AIMatcher with its delegation to the fallback, and *)
(* AutofillService.processForms / matchFields / combineMappings.           *)
(*                                                                         *)
(* Text is a sequence of one-character strings, so that toLowerCase,       *)
(* String.includes and the tokenizer's split are computed character by     *)
(* character.  Numbers in [0,1] (scores, confidences) are fixed-point      *)
(* integers counted in units of 1/One; every quantity the matchers compute *)
(* on the texts below is a whole number of such units, so the arithmetic   *)
(* is exact (IEEE-754 rounding error of the doubles is not represented).   *)
(***************************************************************************)
EXTENDS Integers, Sequences, FiniteSets, TLC

\* ---------------------------------------------------------------- bounds
\* longest field list a page holds / longest record list the store holds
MaxFields == 2
MaxRecords == 5
\* most subtrees a document is put together from / most detectForms
\* requests one page receives
MaxNodes == 2
MaxPasses == 2
\* findPositionalLabel stops collecting at 20 candidates; the cap is scaled
\* down so that a field with more candidates than the cap occurs
MaxCandidates == 2
\* src/lib/autofill/constants.ts sets 200 and 50; the caps are scaled down
\* so that lists longer than the cap occur within MaxFields / MaxRecords
MAX_FIELDS_PER_PAGE == 1
MAX_MEMORIES_FOR_MATCHING == 4

\* ------------------------------------------------------------ fixed point
\* 1.0 in fixed-point units: hundredths (roundConfidence) times 60, which
\* makes overlap / union and its 0.3 multiple whole for every union size
\* up to 6
One == 60 * 100
Pct(h) == (h * One) \div 100
MIN_MATCH_CONFIDENCE == Pct(35)
Min(a, b) == IF a <= b THEN a ELSE b
Max(a, b) == IF a >= b THEN a ELSE b

\* --------------------------------------------------------------- JS values
\* null / undefined where a string is expected, and a null record id
NullText == <<"<null>">>
Undefined == <<"<undefined>">>
Null == "<null>"
Falsy(s) == s = NullText \/ s = Undefined \/ s = <<>>

\* ------------------------------------------------------------------- text
UPPER == <<"A","B","C","D","E","F","G","H","I","J","K","L","M","N","O","P","Q","R","S","T","U","V","W","X","Y","Z">>
LOWER == <<"a","b","c","d","e","f","g","h","i","j","k","l","m","n","o","p","q","r","s","t","u","v","w","x","y","z">>
DIGIT == <<"0","1","2","3","4","5","6","7","8","9">>
Range(s) == { s[i] : i \in DOMAIN s }
toLowerChar(c) ==
  IF c \in Range(UPPER) THEN LOWER[CHOOSE i \in DOMAIN UPPER : UPPER[i] = c] ELSE c
toLowerCase(s) == [i \in DOMAIN s |-> toLowerChar(s[i])]
\* String.prototype.includes
includes(s, sub) ==
  \E i \in 0..(Len(s) - Len(sub)) : SubSeq(s, i + 1, i + Len(sub)) = sub
\* `${x}` inside a template literal
Interp(s) == IF s = Undefined THEN <<"u","n","d","e","f","i","n","e","d">>
             ELSE IF s = NullText THEN <<"n","u","l","l">> ELSE s
\* Array.prototype.join over strings
RECURSIVE join(_, _)
join(parts, sep) ==
  IF parts = <<>> THEN <<>>
  ELSE IF Len(parts) = 1 THEN parts[1]
  ELSE parts[1] \o sep \o join(Tail(parts), sep)
\* text.split(/[^a-z0-9]+/): the maximal runs of [a-z0-9]
IsWordChar(c) == c \in Range(LOWER) \/ c \in Range(DIGIT)
split(s) ==
  { SubSeq(s, p[1], p[2]) : p \in
      { q \in (DOMAIN s) \X (DOMAIN s) :
          /\ q[1] <= q[2]
          /\ \A k \in q[1]..q[2] : IsWordChar(s[k])
          /\ q[1] = 1 \/ ~IsWordChar(s[q[1] - 1])
          /\ q[2] = Len(s) \/ ~IsWordChar(s[q[2] + 1]) } }

\* -------------------------------------------------------------- constants
FIELD_PURPOSE_KEYWORDS ==
  [ name |-> << <<"n","a","m","e">>,
        <<"f","u","l","l","n","a","m","e">>,
        <<"f","i","r","s","t">>,
        <<"l","a","s","t">>,
        <<"g","i","v","e","n">>,
        <<"f","a","m","i","l","y">> >>,
    email |-> << <<"e","m","a","i","l">>,
        <<"m","a","i","l">>,
        <<"e","-","m","a","i","l">>,
        <<"i","n","b","o","x">> >>,
    phone |-> << <<"p","h","o","n","e">>,
        <<"t","e","l">>,
        <<"m","o","b","i","l","e">>,
        <<"c","e","l","l">>,
        <<"t","e","l","e","p","h","o","n","e">> >>,
    address |-> << <<"a","d","d","r","e","s","s">>,
        <<"s","t","r","e","e","t">>,
        <<"a","d","d","r">>,
        <<"l","o","c","a","t","i","o","n">> >>,
    city |-> << <<"c","i","t","y">>,
        <<"t","o","w","n">> >>,
    state |-> << <<"s","t","a","t","e">>,
        <<"p","r","o","v","i","n","c","e">>,
        <<"r","e","g","i","o","n">> >>,
    zip |-> << <<"z","i","p">>,
        <<"p","o","s","t","a","l">>,
        <<"p","o","s","t","c","o","d","e">> >>,
    country |-> << <<"c","o","u","n","t","r","y">>,
        <<"n","a","t","i","o","n">> >>,
    company |-> << <<"c","o","m","p","a","n","y">>,
        <<"o","r","g","a","n","i","z","a","t","i","o","n">>,
        <<"e","m","p","l","o","y","e","r">>,
        <<"b","u","s","i","n","e","s","s">> >>,
    title |-> << <<"t","i","t","l","e">>,
        <<"p","o","s","i","t","i","o","n">>,
        <<"r","o","l","e">>,
        <<"j","o","b">> >> ]

STOP_WORDS ==
  { <<"t","h","e">>,
    <<"a","n","d">>,
    <<"f","o","r">>,
    <<"w","i","t","h">>,
    <<"y","o","u","r">>,
    <<"p","l","e","a","s","e">>,
    <<"e","n","t","e","r">>,
    <<"t","y","p","e">>,
    <<"h","e","r","e">>,
    <<"c","l","i","c","k">>,
    <<"s","e","l","e","c","t">>,
    <<"c","h","o","o","s","e">>,
    <<"s","u","b","m","i","t">>,
    <<"f","i","e","l","d">>,
    <<"f","o","r","m">>,
    <<"i","n","f","o">>,
    <<"i","n","f","o","r","m","a","t","i","o","n">>,
    <<"o","p","t","i","o","n","a","l">>,
    <<"r","e","q","u","i","r","e","d">> }

\* the texts of the pages and records explored
Txt ==
  [ EmailAddress |-> <<"E","m","a","i","l"," ","A","d","d","r","e","s","s">>,
    FavoriteBook |-> <<"F","a","v","o","r","i","t","e"," ","B","o","o","k">>,
    Password |-> <<"P","a","s","s","w","o","r","d">>,
    ContactAddress |-> <<"C","o","n","t","a","c","t"," ","a","d","d","r","e","s","s">>,
    HomeAddressLc |-> <<"h","o","m","e"," ","a","d","d","r","e","s","s">>,
    Addr |-> <<"a","d","d","r">>,
    WhatsYourEmail |-> <<"w","h","a","t","'","s"," ","y","o","u","r"," ","e","m","a","i","l">>,
    HomeAddress |-> <<"H","o","m","e"," ","a","d","d","r","e","s","s">>,
    WorkEmail |-> <<"w","o","r","k"," ","e","m","a","i","l">>,
    OfficeStreetAddress |-> <<"O","f","f","i","c","e"," ","s","t","r","e","e","t"," ","a","d","d","r","e","s","s">>,
    BackupMail |-> <<"b","a","c","k","u","p"," ","m","a","i","l">>,
    AtB |-> <<"a","@","b",".","c","o","m">>,
    MainSt |-> <<"1"," ","M","a","i","n"," ","S","t">>,
    SideRd |-> <<"2"," ","S","i","d","e"," ","R","d">>,
    AtD |-> <<"c","@","d",".","o","r","g">>,
    N555 |-> <<"5","5","5">>,
    Contact |-> <<"c","o","n","t","a","c","t">>,
    Address |-> <<"a","d","d","r","e","s","s">>,
    Work |-> <<"w","o","r","k">> ]

\* ------------------------------------------------------------ mapping-utils
Reasoning(text, pct, reasons) == [text |-> text, pct |-> pct, reasons |-> reasons]

createEmptyMapping(opid, reason) ==
  [ fieldOpid |-> opid, memoryId |-> Null, value |-> NullText, confidence |-> 0,
    reasoning |-> Reasoning(reason, 0, <<>>), alternativeMatches |-> <<>> ]

\* Math.round(clamp(value, 0, 1) * 100) / 100, halves rounded up
roundConfidence(value) ==
  LET clamped == Max(0, Min(One, value))
      hundredth == One \div 100
  IN  ((2 * clamped + hundredth) \div (2 * hundredth)) * hundredth

\* ---------------------------------------------------------- FallbackMatcher
tokenize(text) ==
  { w \in split(toLowerCase(text)) : Len(w) >= 2 /\ w \notin STOP_WORDS }

computeTokenOverlap(setA, setB) == Cardinality(setA \cap setB)

matchedKeywords(field, memory) ==
  LET keywords == FIELD_PURPOSE_KEYWORDS[field.purpose]
      memoryText == toLowerCase(Interp(memory.question) \o <<" ">> \o Interp(memory.category))
  IN  { i \in DOMAIN keywords : includes(memoryText, toLowerCase(keywords[i])) }

\* faulty variant: the score is not capped at 1
scorePurposeMatch_uncapped(field, memory) ==
  IF field.purpose = "unknown" THEN 0
  ELSE LET matched == Cardinality(matchedKeywords(field, memory))
       IN  IF matched = 0 THEN 0 ELSE Pct(60) + matched * Pct(20)

\* faulty variant: a field of unknown purpose matches every record
scorePurposeMatch_unknownMatchesAll(field, memory) ==
  IF field.purpose = "unknown" THEN One
  ELSE LET matched == Cardinality(matchedKeywords(field, memory))
       IN  IF matched = 0 THEN 0 ELSE Min(One, Pct(60) + matched * Pct(20))

scorePurposeMatch(field, memory) ==
  IF field.purpose = "unknown" THEN 0
  ELSE LET matched == Cardinality(matchedKeywords(field, memory))
       IN  IF matched = 0 THEN 0 ELSE Min(One, Pct(60) + matched * Pct(20))

scoreContextSimilarity(field, memory) ==
  IF Falsy(field.context) \/ Falsy(memory.question) THEN 0
  ELSE LET fieldTokens == tokenize(toLowerCase(field.context))
           memoryTokens == tokenize(toLowerCase(memory.question))
           overlap == computeTokenOverlap(fieldTokens, memoryTokens)
       IN  IF overlap = 0 THEN 0
           ELSE (One * overlap) \div Cardinality(fieldTokens \cup memoryTokens)

\* memory.category.toLowerCase() raises a TypeError on a missing category
categoryRaises(memory) == memory.category \in {Undefined, NullText}

scoreCategoryMatch(field, memory) ==
  LET fieldLabels == toLowerCase(join(field.labels, <<" ">>))
      category == toLowerCase(memory.category)
      overlap == computeTokenOverlap(tokenize(category), tokenize(fieldLabels))
  IN  IF includes(fieldLabels, category) THEN Pct(80)
      ELSE IF overlap > 0 THEN Min(Pct(60), overlap * Pct(30)) ELSE 0

scoreLabelOverlap(field, memory) ==
  LET fieldText == toLowerCase(join(field.labels, <<" ">>))
      memoryText == toLowerCase(Interp(memory.question) \o <<" ">> \o Interp(memory.answer))
      overlap == computeTokenOverlap(tokenize(fieldText), tokenize(memoryText))
  IN  IF overlap > 0 THEN Min(One, overlap * Pct(50)) ELSE 0

calculateMatchScore(field, memory) ==
  LET purposeScore == (scorePurposeMatch(field, memory) * 4) \div 10
      contextScore == (scoreContextSimilarity(field, memory) * 3) \div 10
      categoryScore == (scoreCategoryMatch(field, memory) * 2) \div 10
      labelScore == scoreLabelOverlap(field, memory) \div 10
  IN  Min(One, purposeScore + contextScore + categoryScore + labelScore)

Reason(tag, purpose, category, overlap) ==
  [tag |-> tag, purpose |-> purpose, category |-> category, overlap |-> overlap]

buildMatchReasons(field, memory) ==
  LET purposeHit ==
        field.purpose # "unknown" /\ matchedKeywords(field, memory) # {}
      categoryHit ==
        includes(toLowerCase(join(field.labels, <<" ">>)), toLowerCase(memory.category))
      overlap ==
        IF Falsy(field.context) \/ Falsy(memory.question) THEN 0
        ELSE computeTokenOverlap(tokenize(toLowerCase(field.context)),
                                 tokenize(toLowerCase(memory.question)))
      reasons ==
        (IF purposeHit
           THEN <<Reason("Purpose matches memory context", field.purpose, <<>>, 0)>>
           ELSE <<>>)
        \o (IF categoryHit
              THEN <<Reason("Category found in field labels", "", memory.category, 0)>>
              ELSE <<>>)
        \o (IF overlap > 0
              THEN <<Reason("shared keywords with memory question", "", <<>>, overlap)>>
              ELSE <<>>)
  IN  IF reasons = <<>>
        THEN <<Reason("Weak match based on partial context overlap", "", <<>>, 0)>>
        ELSE reasons

\* ------------------------------------------------- pages and stored records
Meta(labelTag, labelAria, placeholder, name, fieldType, fieldPurpose) ==
  [ labelTag |-> labelTag, labelAria |-> labelAria, labelData |-> NullText,
    labelLeft |-> NullText, labelRight |-> NullText, labelTop |-> NullText,
    placeholder |-> placeholder, helperText |-> NullText, name |-> name,
    id |-> NullText, fieldType |-> fieldType, fieldPurpose |-> fieldPurpose ]

EmailAddressInput == Meta(Txt.EmailAddress, NullText, NullText, NullText, "email", "email")

\* the FieldMetadata of the inputs a page is built from
FieldTemplates ==
  { EmailAddressInput,
    Meta(Txt.FavoriteBook, NullText, NullText, NullText, "text", "unknown"),
    Meta(Txt.Password, NullText, NullText, NullText, "password", "unknown"),
    Meta(Txt.ContactAddress, Txt.ContactAddress, Txt.HomeAddressLc, Txt.Addr, "text", "address") }

MemoryEntry(id, question, answer, category) ==
  [id |-> id, question |-> question, answer |-> answer, category |-> category]

\* the entries the store may hold, in storage order; r5 lacks its answer,
\* r4 lacks its category and its question
MemoryCatalog ==
  << MemoryEntry("r5", Txt.WorkEmail, Undefined, Txt.Contact),
     MemoryEntry("r1", Txt.WhatsYourEmail, Txt.AtB, Txt.Contact),
     MemoryEntry("r2", Txt.HomeAddress, Txt.MainSt, Txt.Address),
     MemoryEntry("r6", Txt.OfficeStreetAddress, Txt.SideRd, Txt.Work),
     MemoryEntry("r7", Txt.BackupMail, Txt.AtD, Txt.Contact),
     MemoryEntry("r4", Undefined, Txt.N555, Undefined) >>

FieldOpId(n) == <<"__", n>>
FormOpId(n) == <<"__form__", n>>
FormStandalone == <<"__form__standalone", 0>>

\* ------------------------------------------------ AutofillService (helpers)
\* Array.from(new Set(xs)): first occurrences, in order
RECURSIVE dedupe(_)
dedupe(xs) ==
  IF xs = <<>> THEN <<>>
  ELSE LET init == dedupe(SubSeq(xs, 1, Len(xs) - 1))
           x == xs[Len(xs)]
       IN  IF x \in Range(init) THEN init ELSE Append(init, x)

Truthy(s) == ~Falsy(s)

compressField(field) ==
  LET m == field.metadata
      allLabels == SelectSeq(<<m.labelTag, m.labelAria, m.labelData,
                               m.labelLeft, m.labelRight, m.labelTop>>, Truthy)
      context == join(SelectSeq(<<m.placeholder, m.helperText, m.name, m.id>>, Truthy), <<" ">>)
  IN  [ opid |-> field.opid, type |-> m.fieldType, purpose |-> m.fieldPurpose,
        labels |-> dedupe(allLabels), context |-> context ]

compressMemory(memory) ==
  [ id |-> memory.id,
    question |-> IF Falsy(memory.question) THEN <<>> ELSE memory.question,
    answer |-> memory.answer,
    category |-> memory.category ]

\* ------------------------------------------------- FallbackMatcher (fields)
\* what the scorer reads of a field: neither opid nor type
Scored(field) == [purpose |-> field.purpose, labels |-> field.labels, context |-> field.context]
ScoredFields == { Scored(compressField([opid |-> FieldOpId(0), metadata |-> m])) : m \in FieldTemplates }
CompressedMemories == { compressMemory(m) : m \in Range(MemoryCatalog) }

\* calculateMatchScore and buildMatchReasons over the texts explored,
\* evaluated once
ScoreTable ==
  [ f \in ScoredFields, m \in CompressedMemories |->
      IF categoryRaises(m) THEN 0 ELSE calculateMatchScore(f, m) ]
ReasonsTable ==
  [ f \in ScoredFields, m \in CompressedMemories |->
      IF categoryRaises(m) THEN <<>> ELSE buildMatchReasons(f, m) ]

\* candidates.sort((a, b) => b.score - a.score): stable, descending
RECURSIVE sortByScore(_)
\* faulty variant: a later record of equal score is ranked first
RECURSIVE sortByScore_laterFirst(_)
sortByScore_laterFirst(cs) ==
  IF cs = <<>> THEN <<>>
  ELSE LET init == sortByScore_laterFirst(SubSeq(cs, 1, Len(cs) - 1))
           c == cs[Len(cs)]
           k == Cardinality({ i \in DOMAIN init : init[i].score > c.score })
       IN  SubSeq(init, 1, k) \o <<c>> \o SubSeq(init, k + 1, Len(init))

sortByScore(cs) ==
  IF cs = <<>> THEN <<>>
  ELSE LET init == sortByScore(SubSeq(cs, 1, Len(cs) - 1))
           c == cs[Len(cs)]
           k == Cardinality({ i \in DOMAIN init : init[i].score >= c.score })
       IN  SubSeq(init, 1, k) \o <<c>> \o SubSeq(init, k + 1, Len(init))

Alternative(candidate) ==
  [ memoryId |-> candidate.memory.id, value |-> candidate.memory.answer,
    confidence |-> roundConfidence(candidate.score) ]

HasScore(candidate) == candidate.score > 0

matchSingleFieldRaises(field, memories) ==
  \E i \in DOMAIN memories : categoryRaises(memories[i])

\* the mapping built from the sorted candidates' best one
bestMapping(field, bestCandidate, confidence, alternativeMatches) ==
  IF confidence < MIN_MATCH_CONFIDENCE
    THEN [ fieldOpid |-> field.opid, memoryId |-> Null, value |-> NullText,
           confidence |-> confidence,
           reasoning |-> Reasoning("Low confidence match",
                                   (confidence * 100) \div One,
                                   bestCandidate.reasons),
           alternativeMatches |-> alternativeMatches ]
    ELSE [ fieldOpid |-> field.opid, memoryId |-> bestCandidate.memory.id,
           value |-> bestCandidate.memory.answer,
           confidence |-> confidence,
           reasoning |-> Reasoning("", 0, bestCandidate.reasons),
           alternativeMatches |-> alternativeMatches ]

\* candidates: scored, filtered by score > 0 and sorted
selectCandidate(field, candidates) ==
  IF candidates = <<>>
    THEN createEmptyMapping(field.opid, "No matching memory found")
    ELSE bestMapping(field, candidates[1], roundConfidence(candidates[1].score),
                     [ i \in 1..Min(3, Len(candidates) - 1) |->
                         Alternative(candidates[i + 1]) ])

matchSingleField(field, memories) ==
  IF memories = <<>> THEN createEmptyMapping(field.opid, "No memories available")
  ELSE selectCandidate(field,
         sortByScore(SelectSeq(
           [ i \in DOMAIN memories |->
               [ memory |-> memories[i],
                 score |-> ScoreTable[Scored(field), memories[i]],
                 reasons |-> ReasonsTable[Scored(field), memories[i]] ] ],
           HasScore)))

\* what an async method hands its caller: a value, or a rejection
Return(v) == [threw |-> FALSE, value |-> v]
Raise == [threw |-> TRUE, value |-> <<>>]

\* faulty variant: the catch block returns an empty list
FallbackMatcher_matchFields_catchEmpty(fields, memories) ==
  IF \E i \in DOMAIN fields : matchSingleFieldRaises(fields[i], memories)
    THEN Return(<<>>)
    ELSE Return([ i \in DOMAIN fields |-> matchSingleField(fields[i], memories) ])

\* faulty variant: no try/catch around the scoring
FallbackMatcher_matchFields_noCatch(fields, memories) ==
  IF \E i \in DOMAIN fields : matchSingleFieldRaises(fields[i], memories)
    THEN Raise
    ELSE Return([ i \in DOMAIN fields |-> matchSingleField(fields[i], memories) ])

FallbackMatcher_matchFields(fields, memories) ==
  IF \E i \in DOMAIN fields : matchSingleFieldRaises(fields[i], memories)
    THEN Return([ i \in DOMAIN fields |->
                    createEmptyMapping(fields[i].opid, "Fallback matching error") ])
    ELSE Return([ i \in DOMAIN fields |-> matchSingleField(fields[i], memories) ])

\* ----------------------------------------------------------------- AIMatcher
AIMatch(opid, memoryId, confidence, reasoning, alternativeMemoryIds) ==
  [ fieldOpid |-> opid, memoryId |-> memoryId, confidence |-> confidence,
    reasoning |-> reasoning, alternativeMemoryIds |-> alternativeMemoryIds ]

Thousandth == One \div 1000

\* what the provider's model may answer to one request: "rejected" stands
\* for a network error, a timeout or a reply that is not JSON; every other
\* entry is the object the reply parses to, before schema validation
ModelReplies ==
  [ rejected |-> <<>>,
    none |-> <<>>,
    fewer |-> << AIMatch(FieldOpId(0), "r1", Pct(90), "best", <<"r2">>) >>,
    swapped |-> << AIMatch(FieldOpId(1), "r2", Pct(35), "", <<>>),
                   AIMatch(FieldOpId(0), "r1", Pct(90), "best", <<"r1", "rX">>) >>,
    twice |-> << AIMatch(FieldOpId(0), "r1", Pct(90), "best", <<>>),
                 AIMatch(FieldOpId(0), "r2", Pct(50), "second", <<"r5">>) >>,
    stranger |-> << AIMatch(FieldOpId(9), "r1", Pct(90), "best", <<>>) >>,
    unknownId |-> << AIMatch(FieldOpId(0), "rX", Pct(90), "best", <<>>),
                     AIMatch(FieldOpId(1), Null, Pct(20), "no match", <<"r1", "r2", "r5">>) >>,
    nearMin |-> << AIMatch(FieldOpId(0), "r1", Pct(35) - 4 * Thousandth, "", <<>>),
                   AIMatch(FieldOpId(1), "r2", Pct(35) - 6 * Thousandth, "", <<"r1">>) >>,
    borderline |-> << AIMatch(FieldOpId(0), "r1", Pct(60), "fits", <<>>),
                      AIMatch(FieldOpId(1), "r2", Pct(55), "close", <<"r1">>) >>,
    close |-> << AIMatch(FieldOpId(0), "r2", Pct(55), "close", <<"r1">>) >>,
    faint |-> << AIMatch(FieldOpId(0), "r2", Pct(5), "guess", <<"r1">>) >>,
    tooSure |-> << AIMatch(FieldOpId(0), "r1", Pct(150), "best", <<"r2">>) >>,
    negative |-> << AIMatch(FieldOpId(0), "r1", 0 - Pct(10), "best", <<"r2">>) >>,
    fourAlternatives |-> << AIMatch(FieldOpId(0), "r1", Pct(90), "best",
                                    <<"r2", "r6", "r7", "r4">>) >> ]
ModelOutcomes == DOMAIN ModelReplies

\* faulty variant: the schema bounds neither the confidence nor the alternatives
AIMatchSchema_unbounded(m) == m.confidence \in Int

\* z.number().min(0).max(1) and z.array(z.string()).max(3)
AIMatchSchema(m) ==
  /\ 0 <= m.confidence /\ m.confidence <= One
  /\ Len(m.alternativeMemoryIds) <= 3

AIBatchMatchSchema(matches) == \A i \in DOMAIN matches : AIMatchSchema(matches[i])

SupportedProviders == {"anthropic", "gemini", "ollama", "openai", "groq", "deepseek"}
getAIModelRaises(provider) == provider \notin SupportedProviders

\* m.answer.substring(0, 100) raises a TypeError on a missing answer
buildUserPromptRaises(fields, memories) ==
  \E i \in DOMAIN memories : memories[i].answer \in {Undefined, NullText}

\* generateObject: rejects on a failed request and on a reply the schema
\* does not accept
generateObjectRaises(outcome) ==
  outcome = "rejected" \/ ~AIBatchMatchSchema(ModelReplies[outcome])

performAIMatching(fields, memories, provider, apiKey, outcome) ==
  IF getAIModelRaises(provider) THEN Raise
  ELSE IF buildUserPromptRaises(fields, memories) THEN Raise
  ELSE IF generateObjectRaises(outcome) THEN Raise
  ELSE Return(ModelReplies[outcome])

\* memoryMap.get(id): the last record with that id, or undefined
HasMemory(memories, id) == \E i \in DOMAIN memories : memories[i].id = id
GetMemory(memories, id) ==
  memories[CHOOSE i \in DOMAIN memories :
             /\ memories[i].id = id
             /\ \A j \in DOMAIN memories : memories[j].id = id => j <= i]

\* faulty variant: the record's answer is kept below the threshold
convertAIMatch_valueKept(aiMatch, fields, memories) ==
  IF ~\E i \in DOMAIN fields : fields[i].opid = aiMatch.fieldOpid
    THEN createEmptyMapping(aiMatch.fieldOpid, "Field not found")
    ELSE
      LET hasMemory == aiMatch.memoryId # Null /\ HasMemory(memories, aiMatch.memoryId)
          confidence == roundConfidence(aiMatch.confidence)
          meetsThreshold == confidence >= MIN_MATCH_CONFIDENCE
      IN  [ fieldOpid |-> aiMatch.fieldOpid,
            memoryId |-> IF meetsThreshold /\ hasMemory
                           THEN GetMemory(memories, aiMatch.memoryId).id ELSE Null,
            value |-> IF hasMemory
                        THEN GetMemory(memories, aiMatch.memoryId).answer ELSE NullText,
            confidence |-> confidence,
            reasoning |-> Reasoning(aiMatch.reasoning, 0, <<>>),
            alternativeMatches |-> <<>> ]

convertAIMatch(aiMatch, fields, memories) ==
  IF ~\E i \in DOMAIN fields : fields[i].opid = aiMatch.fieldOpid
    THEN createEmptyMapping(aiMatch.fieldOpid, "Field not found")
    ELSE
      LET hasMemory == aiMatch.memoryId # Null /\ HasMemory(memories, aiMatch.memoryId)
          known == SelectSeq(aiMatch.alternativeMemoryIds,
                             LAMBDA id : HasMemory(memories, id))
          alternativeMatches ==
            [ i \in DOMAIN known |->
                [ memoryId |-> GetMemory(memories, known[i]).id,
                  value |-> GetMemory(memories, known[i]).answer,
                  confidence |-> Max(0, aiMatch.confidence - Pct(10)) ] ]
          confidence == roundConfidence(aiMatch.confidence)
          meetsThreshold == confidence >= MIN_MATCH_CONFIDENCE
      IN  [ fieldOpid |-> aiMatch.fieldOpid,
            memoryId |-> IF meetsThreshold /\ hasMemory
                           THEN GetMemory(memories, aiMatch.memoryId).id ELSE Null,
            value |-> IF meetsThreshold /\ hasMemory
                        THEN GetMemory(memories, aiMatch.memoryId).answer ELSE NullText,
            confidence |-> confidence,
            reasoning |-> Reasoning(IF aiMatch.reasoning = ""
                                      THEN "AI-powered semantic match"
                                      ELSE aiMatch.reasoning, 0, <<>>),
            alternativeMatches |-> alternativeMatches ]

convertAIResultsToMappings(aiResults, fields, memories) ==
  [ i \in DOMAIN aiResults |-> convertAIMatch(aiResults[i], fields, memories) ]

\* faulty variant: a failed model call yields empty mappings instead of the fallback
AIMatcher_matchFields_noDelegation(fields, memories, provider, apiKey, outcome) ==
  IF fields = <<>> THEN Return(<<>>)
  ELSE IF memories = <<>> \/ performAIMatching(fields, memories, provider, apiKey, outcome).threw
    THEN Return([ i \in DOMAIN fields |->
                    createEmptyMapping(fields[i].opid, "No memories available") ])
  ELSE Return(convertAIResultsToMappings(
                performAIMatching(fields, memories, provider, apiKey, outcome).value,
                fields, memories))

\* the try block's outcome settled: catch delegates, success converts
AIMatcher_settle(aiResults, fields, memories) ==
  IF aiResults.threw
    THEN FallbackMatcher_matchFields(fields, memories)
    ELSE Return(convertAIResultsToMappings(aiResults.value, fields, memories))

AIMatcher_matchFields(fields, memories, provider, apiKey, outcome) ==
  IF fields = <<>> THEN Return(<<>>)
  ELSE IF memories = <<>>
    THEN Return([ i \in DOMAIN fields |->
                    createEmptyMapping(fields[i].opid, "No memories available") ])
  ELSE AIMatcher_settle(performAIMatching(fields, memories, provider, apiKey, outcome),
                        fields, memories)

\* the matcher asks the model for a reply
ConsultsModel(fields, memories, provider) ==
  /\ fields # <<>> /\ memories # <<>>
  /\ ~getAIModelRaises(provider)
  /\ ~buildUserPromptRaises(fields, memories)

\* ----------------------------------------------------------- AutofillService
NoProvider == "<undefined>"
NoKey == "<undefined>"

\* the matcher invocations one call of AutofillService.matchFields makes
matchFieldsCalls(fields, memories, apiKey, provider, outcome) ==
  LET compressedFields == [i \in DOMAIN fields |-> compressField(fields[i])]
      compressedMemories == [i \in DOMAIN memories |-> compressMemory(memories[i])]
      ai == provider # NoProvider /\ apiKey # NoKey
      fallback ==
        \/ ~ai
        \/ /\ compressedMemories # <<>>
           /\ performAIMatching(compressedFields, compressedMemories,
                                provider, apiKey, outcome).threw
  IN  IF fields = <<>> THEN [matchers |-> {}, fields |-> <<>>, memories |-> <<>>]
      ELSE [ matchers |-> (IF ai THEN {"AIMatcher"} ELSE {})
                            \cup (IF fallback THEN {"FallbackMatcher"} ELSE {}),
             fields |-> compressedFields,
             memories |-> compressedMemories ]

\* the try block of matchFields on the compressed lists
AutofillService_attempt(compressedFields, compressedMemories, apiKey, provider, outcome) ==
  IF provider = NoProvider THEN Raise
  ELSE IF apiKey = NoKey
    THEN FallbackMatcher_matchFields(compressedFields, compressedMemories)
    ELSE AIMatcher_matchFields(compressedFields, compressedMemories,
                               provider, apiKey, outcome)

\* the catch block of matchFields: the fallback matcher on the same lists
AutofillService_settle(attempt, compressedFields, compressedMemories) ==
  IF attempt.threw
    THEN FallbackMatcher_matchFields(compressedFields, compressedMemories)
    ELSE attempt

AutofillService_compressed(compressedFields, compressedMemories, apiKey, provider, outcome) ==
  AutofillService_settle(
    AutofillService_attempt(compressedFields, compressedMemories, apiKey, provider, outcome),
    compressedFields, compressedMemories)

AutofillService_matchFields(fields, memories, apiKey, provider, outcome) ==
  IF fields = <<>> THEN Return(<<>>)
  ELSE AutofillService_compressed(
         [i \in DOMAIN fields |-> compressField(fields[i])],
         [i \in DOMAIN memories |-> compressMemory(memories[i])],
         apiKey, provider, outcome)

\* faulty variant: the matcher's list is returned as it is
combineMappings_passThrough(originalFields, mappings) == mappings

\* mappingMap.get(opid) after the mappingMap.set loop: the last mapping
\* of that opid
combineMappings(originalFields, mappings) ==
  [ i \in DOMAIN originalFields |->
      LET hits == { j \in DOMAIN mappings : mappings[j].fieldOpid = originalFields[i].opid }
      IN  IF hits = {}
            THEN createEmptyMapping(originalFields[i].opid, "No mapping generated")
            ELSE mappings[CHOOSE j \in hits : \A k \in hits : k <= j] ]

RECURSIVE flatMapFields(_)
flatMapFields(forms) ==
  IF forms = <<>> THEN <<>> ELSE forms[1].fields \o flatMapFields(Tail(forms))

IsNotPassword(field) == field.metadata.fieldType # "password"
slice(s, n) == SubSeq(s, 1, Min(n, Len(s)))

\* the arguments of the this.matchFields(...) call of processForms
processForms_matchArgs(forms, allMemories) ==
  [ fields |-> flatMapFields(forms),
    memories |-> slice(allMemories, MAX_MEMORIES_FOR_MATCHING) ]

AutofillResult(success, mappings) == [success |-> success, mappings |-> mappings]

\* faulty variant: the matcher's list is returned as it is
processForms_combine_matcherList(fieldsToProcess, mappings) ==
  IF mappings.threw THEN AutofillResult(FALSE, <<>>)
  ELSE AutofillResult(TRUE, mappings.value)

\* processForms once the matcher has answered
processForms_combine(fieldsToProcess, mappings) ==
  IF mappings.threw THEN AutofillResult(FALSE, <<>>)
  ELSE AutofillResult(TRUE, combineMappings(fieldsToProcess, mappings.value))

\* processForms once the fields of a non-empty page are collected
processForms_fields(fieldsToProcess, args, allMemories, storageFails, apiKey, provider, outcome) ==
  IF storageFails THEN AutofillResult(FALSE, <<>>)
  ELSE IF allMemories = <<>>
    THEN AutofillResult(TRUE,
           [ i \in DOMAIN fieldsToProcess |->
               createEmptyMapping(fieldsToProcess[i].opid,
                                  "No stored memories available") ])
  ELSE processForms_combine(fieldsToProcess,
         AutofillService_matchFields(args.fields, args.memories,
                                     apiKey, provider, outcome))

processForms(forms, allMemories, storageFails, apiKey, provider, outcome) ==
  IF forms = <<>> THEN AutofillResult(TRUE, <<>>)
  ELSE processForms_fields(
         slice(SelectSeq(flatMapFields(forms), IsNotPassword), MAX_FIELDS_PER_PAGE),
         processForms_matchArgs(forms, allMemories),
         allMemories, storageFails, apiKey, provider, outcome)

\* processForms reaches its this.matchFields(...) call
processForms_matches(forms, allMemories, storageFails) ==
  forms # <<>> /\ ~storageFails /\ allMemories # <<>>

SessionId == "session-1"

\* faulty variant: the threshold is compared strictly
buildPreviewPayload_strict(forms, processingResult, sessionId, confidenceThreshold) ==
  [ forms |-> forms,
    mappings |->
      [ i \in DOMAIN processingResult.mappings |->
          LET mapping == processingResult.mappings[i]
          IN  [ k \in DOMAIN mapping \cup {"autoFill"} |->
                  IF k = "autoFill"
                    THEN /\ mapping.memoryId # Null
                         /\ mapping.value # NullText
                         /\ mapping.confidence > confidenceThreshold
                    ELSE mapping[k] ] ],
    sessionId |-> sessionId ]

\* {...mapping, autoFill: meetsThreshold} for every mapping of the result
buildPreviewPayload(forms, processingResult, sessionId, confidenceThreshold) ==
  [ forms |-> forms,
    mappings |->
      [ i \in DOMAIN processingResult.mappings |->
          LET mapping == processingResult.mappings[i]
          IN  [ k \in DOMAIN mapping \cup {"autoFill"} |->
                  IF k = "autoFill"
                    THEN /\ mapping.memoryId # Null
                         /\ mapping.value # NullText
                         /\ mapping.confidence >= confidenceThreshold
                    ELSE mapping[k] ] ],
    sessionId |-> sessionId ]

SeqsUpTo(S, n) == UNION { [1..k -> S] : k \in 0..n }

\* ================================================== content script: detection
\* ------------------------------------------------------------- FieldAnalyzer
WhiteSpace == {" ", "\n", "\t", "\r"}

\* String.prototype.trim
trim(s) ==
  LET inked == { i \in DOMAIN s : s[i] \notin WhiteSpace }
  IN  IF inked = {} THEN <<>>
      ELSE SubSeq(s, CHOOSE i \in inked : \A j \in inked : i <= j,
                     CHOOSE i \in inked : \A j \in inked : j <= i)

\* text.replace(/[\n\r\t]+/g, " ").replace(/\s+/g, " ").trim(), and null
\* for a result that is empty or 200 characters or longer
cleanText(text) ==
  LET t == trim(text)
      kept == SelectSeq([i \in DOMAIN t |-> i],
                        LAMBDA i : t[i] \notin WhiteSpace \/ t[i - 1] \notin WhiteSpace)
      cleaned == [k \in DOMAIN kept |->
                    IF t[kept[k]] \in WhiteSpace THEN " " ELSE t[kept[k]]]
  IN  IF Len(cleaned) > 0 /\ Len(cleaned) < 200 THEN cleaned ELSE NullText

\* element.getAttribute(name) || null
attributeOrNull(value) == IF Falsy(value) THEN NullText ELSE value

\* \w of a regular expression
IsRegexWordChar(c) == c \in Range(UPPER) \/ c \in Range(LOWER) \/ c \in Range(DIGIT) \/ c = "_"

\* /\b(w1|w2|...)\b/i.test(text) on a lower-case text
regexTest(words, text) ==
  \E w \in words : \E i \in 1..(Len(text) - Len(w) + 1) :
    /\ SubSeq(text, i, i + Len(w) - 1) = w
    /\ i = 1 \/ ~IsRegexWordChar(text[i - 1])
    /\ i + Len(w) - 1 = Len(text) \/ ~IsRegexWordChar(text[i + Len(w)])

\* the patterns of inferFieldPurpose in their order; an optional [\s-]? is
\* written out as its three readings (none, blank, hyphen)
PurposePatterns ==
  << [ purpose |-> "email",
       words |-> { <<"e","m","a","i","l">>,
                  <<"e","-","m","a","i","l">>,
                  <<"m","a","i","l">> } ],
     [ purpose |-> "phone",
       words |-> { <<"p","h","o","n","e">>,
                  <<"t","e","l">>,
                  <<"t","e","l","e","p","h","o","n","e">>,
                  <<"m","o","b","i","l","e">>,
                  <<"c","e","l","l">> } ],
     [ purpose |-> "name",
       words |-> { <<"n","a","m","e">>,
                  <<"f","u","l","l","n","a","m","e">>,
                  <<"f","u","l","l"," ","n","a","m","e">>,
                  <<"f","u","l","l","-","n","a","m","e">>,
                  <<"f","i","r","s","t","n","a","m","e">>,
                  <<"f","i","r","s","t"," ","n","a","m","e">>,
                  <<"f","i","r","s","t","-","n","a","m","e">>,
                  <<"l","a","s","t","n","a","m","e">>,
                  <<"l","a","s","t"," ","n","a","m","e">>,
                  <<"l","a","s","t","-","n","a","m","e">>,
                  <<"g","i","v","e","n","n","a","m","e">>,
                  <<"g","i","v","e","n"," ","n","a","m","e">>,
                  <<"g","i","v","e","n","-","n","a","m","e">>,
                  <<"f","a","m","i","l","y","n","a","m","e">>,
                  <<"f","a","m","i","l","y"," ","n","a","m","e">>,
                  <<"f","a","m","i","l","y","-","n","a","m","e">> } ],
     [ purpose |-> "address",
       words |-> { <<"a","d","d","r","e","s","s">>,
                  <<"s","t","r","e","e","t">>,
                  <<"a","d","d","r">>,
                  <<"l","o","c","a","t","i","o","n">>,
                  <<"r","e","s","i","d","e","n","c","e">> } ],
     [ purpose |-> "city",
       words |-> { <<"c","i","t","y">>,
                  <<"t","o","w","n">> } ],
     [ purpose |-> "state",
       words |-> { <<"s","t","a","t","e">>,
                  <<"p","r","o","v","i","n","c","e">>,
                  <<"r","e","g","i","o","n">> } ],
     [ purpose |-> "zip",
       words |-> { <<"z","i","p">>,
                  <<"p","o","s","t","a","l","c","o","d","e">>,
                  <<"p","o","s","t","a","l"," ","c","o","d","e">>,
                  <<"p","o","s","t","a","l","-","c","o","d","e">>,
                  <<"p","o","s","t","c","o","d","e">> } ],
     [ purpose |-> "country",
       words |-> { <<"c","o","u","n","t","r","y">>,
                  <<"n","a","t","i","o","n">> } ],
     [ purpose |-> "company",
       words |-> { <<"c","o","m","p","a","n","y">>,
                  <<"o","r","g","a","n","i","z","a","t","i","o","n">>,
                  <<"e","m","p","l","o","y","e","r">>,
                  <<"b","u","s","i","n","e","s","s">> } ],
     [ purpose |-> "title",
       words |-> { <<"t","i","t","l","e">>,
                  <<"p","o","s","i","t","i","o","n">>,
                  <<"j","o","b","t","i","t","l","e">>,
                  <<"j","o","b"," ","t","i","t","l","e">>,
                  <<"j","o","b","-","t","i","t","l","e">>,
                  <<"r","o","l","e">> } ] >>

autocompleteMap ==
  { <<<<"n","a","m","e">>, "name">>,
    <<<<"g","i","v","e","n","-","n","a","m","e">>, "name">>,
    <<<<"f","a","m","i","l","y","-","n","a","m","e">>, "name">>,
    <<<<"e","m","a","i","l">>, "email">>,
    <<<<"t","e","l">>, "phone">>,
    <<<<"s","t","r","e","e","t","-","a","d","d","r","e","s","s">>, "address">>,
    <<<<"a","d","d","r","e","s","s","-","l","i","n","e","1">>, "address">>,
    <<<<"a","d","d","r","e","s","s","-","l","i","n","e","2">>, "address">>,
    <<<<"c","i","t","y">>, "city">>,
    <<<<"s","t","a","t","e">>, "state">>,
    <<<<"p","o","s","t","a","l","-","c","o","d","e">>, "zip">>,
    <<<<"c","o","u","n","t","r","y">>, "country">>,
    <<<<"o","r","g","a","n","i","z","a","t","i","o","n">>, "company">>,
    <<<<"j","o","b","-","t","i","t","l","e">>, "title">> }

classifyFieldType(element) ==
  IF element.tag = "TEXTAREA" THEN "textarea"
  ELSE IF element.tag = "SELECT" THEN "select"
  ELSE IF element.tag = "INPUT"
    THEN IF element.attrs.type \in {"email", "tel", "url", "password", "number",
                                     "date", "checkbox", "radio"}
           THEN element.attrs.type ELSE "text"
  ELSE "text"

\* metadata: the labels and attributes read so far
inferFieldPurpose(metadata, autocomplete, fieldType) ==
  LET key == toLowerCase(autocomplete)
      allText == toLowerCase(join(SelectSeq(
                   <<metadata.labelTag, metadata.labelAria, metadata.labelData,
                     metadata.labelLeft, metadata.labelRight, metadata.labelTop,
                     metadata.placeholder, metadata.name, metadata.id>>, Truthy), <<" ">>))
      hits == { k \in DOMAIN PurposePatterns : regexTest(PurposePatterns[k].words, allText) }
  IN  IF fieldType = "email" THEN "email"
      ELSE IF fieldType = "tel" THEN "phone"
      ELSE IF Truthy(autocomplete) /\ \E p \in autocompleteMap : p[1] = key
        THEN (CHOOSE p \in autocompleteMap : p[1] = key)[2]
      ELSE IF hits # {}
        THEN PurposePatterns[CHOOSE k \in hits : \A j \in hits : k <= j].purpose
      ELSE "unknown"

\* ------------------------------------------------------------- the document
\* an element: its tag, its identity, its light-DOM children, the children
\* of its shadow root, the text node it holds, its bounding rectangle and
\* its attributes; attrs.label and attrs.helper stand for the text of the
\* label element and of the helper element associated with a field
Node(tag, el, children, shadow, text, rect, attrs) ==
  [ tag |-> tag, el |-> el, children |-> children, shadow |-> shadow,
    text |-> text, rect |-> rect, attrs |-> attrs ]

Rect(left, top, width, height) ==
  [left |-> left, right |-> left + width, top |-> top, bottom |-> top + height]

NoAttrs ==
  [ type |-> "", id |-> NullText, name |-> NullText, placeholder |-> NullText,
    autocomplete |-> NullText, ariaLabel |-> NullText, dataLabel |-> NullText,
    label |-> NullText, helper |-> NullText, bwignore |-> FALSE, rendered |-> TRUE ]

\* document order over the light DOM (shadow roots are not part of it)
RECURSIVE lightTree(_)
lightTree(nodes) ==
  IF nodes = <<>> THEN <<>>
  ELSE <<nodes[1]>> \o lightTree(nodes[1].children) \o lightTree(Tail(nodes))

\* the null of calculateDistance; its distances are never negative
NoDistance == 0 - 1

calculateDistance(fieldRect, labelRect, direction) ==
  LET verticalOverlap ==
        Max(0, Min(fieldRect.bottom, labelRect.bottom)
                 - Max(fieldRect.top, labelRect.top)) > 0
      horizontalOverlap ==
        Min(fieldRect.right, labelRect.right) > Max(fieldRect.left, labelRect.left)
      abs(n) == IF n < 0 THEN 0 - n ELSE n
      horizontalDistance ==
        Min(abs(fieldRect.left - labelRect.right), abs(labelRect.left - fieldRect.right))
  IN  CASE direction = "left" ->
             IF ~verticalOverlap \/ labelRect.right > fieldRect.left THEN NoDistance
             ELSE fieldRect.left - labelRect.right
        [] direction = "right" ->
             IF ~verticalOverlap \/ labelRect.left < fieldRect.right THEN NoDistance
             ELSE labelRect.left - fieldRect.right
        [] direction = "top" ->
             IF labelRect.bottom > fieldRect.top THEN NoDistance
             ELSE IF ~horizontalOverlap /\ horizontalDistance > 50 THEN NoDistance
             ELSE fieldRect.top - labelRect.bottom

\* the acceptNode filter of the text walker, on the element holding the
\* text node (no text of the documents explored has a button, a link or a
\* classed element above its parent)
acceptTextNode(parent, direction) ==
  /\ Len(trim(parent.text)) >= 2
  /\ parent.tag \notin {"SCRIPT", "STYLE", "NOSCRIPT", "INPUT", "TEXTAREA",
                        "SELECT", "BUTTON", "A"}
  /\ direction = "top" =>
       /\ Len(trim(parent.text)) >= 3
       /\ toLowerCase(trim(parent.text)) \notin
            { <<"a","n","d">>, <<"w","i","t","h">>, <<"c","o","n","t","i","n","u","e">>,
              <<"s","i","g","n">>, <<"l","o","g","i","n">>,
              <<"r","e","g","i","s","t","e","r">> }

\* the scan of findPositionalLabel: the first MaxCandidates accepted text
\* nodes within the threshold, in document order
scanCandidates(doc, element, direction) ==
  LET threshold == IF direction = "top" THEN 100 ELSE 200
      near(parent) ==
        /\ parent.text # NullText
        /\ acceptTextNode(parent, direction)
        /\ calculateDistance(element.rect, parent.rect, direction) # NoDistance
        /\ calculateDistance(element.rect, parent.rect, direction) < threshold
      found == SelectSeq(lightTree(doc), near)
  IN  SubSeq(found, 1, Min(MaxCandidates, Len(found)))

\* candidates.sort((a, b) => a.distance - b.distance)[0]
nearestCandidate(candidates, element, direction) ==
  candidates[CHOOSE i \in DOMAIN candidates :
    \A j \in DOMAIN candidates :
      LET di == calculateDistance(element.rect, candidates[i].rect, direction)
          dj == calculateDistance(element.rect, candidates[j].rect, direction)
      IN  di < dj \/ (di = dj /\ i <= j)]

\* the outcome of a scan: no candidate leaves the cache as it is, a
\* candidate's cleaned text is stored under the element
scanned(labelCache, element, direction, candidates) ==
  IF candidates = <<>>
    THEN [label |-> NullText, labelCache |-> labelCache, scans |-> 1]
    ELSE [ label |-> cleanText(nearestCandidate(candidates, element, direction).text),
           labelCache |->
             [ e \in DOMAIN labelCache \cup {element.el} |->
                 IF e = element.el
                   THEN cleanText(nearestCandidate(candidates, element, direction).text)
                   ELSE labelCache[e] ],
           scans |-> 1 ]

\* the label found, the cache afterwards and the number of scans run;
\* labelCache is the WeakMap as a function from element identities
findPositionalLabel(doc, labelCache, element, direction) ==
  IF element.el \in DOMAIN labelCache
    THEN [ label |-> attributeOrNull(labelCache[element.el]),
           labelCache |-> labelCache, scans |-> 0 ]
    ELSE scanned(labelCache, element, direction, scanCandidates(doc, element, direction))

\* labelLeft, labelRight and labelTop looked up in this order on one cache
RECURSIVE positionalLabels(_, _, _, _)
positionalLabels(doc, element, directions, acc) ==
  IF directions = <<>> THEN acc
  ELSE LET found == findPositionalLabel(doc, acc.labelCache, element, directions[1])
       IN  positionalLabels(doc, element, Tail(directions),
             [ labels |-> Append(acc.labels, found.label),
               labelCache |-> found.labelCache,
               scans |-> acc.scans + found.scans ])

\* the FieldMetadata built from the attributes and the positional labels
describeField(element, positional) ==
  LET a == element.attrs
      labels ==
        [ labelTag |-> IF a.label = NullText THEN NullText ELSE cleanText(a.label),
          labelAria |-> IF Falsy(a.ariaLabel) THEN NullText ELSE cleanText(a.ariaLabel),
          labelData |-> attributeOrNull(a.dataLabel),
          labelLeft |-> positional.labels[1],
          labelRight |-> positional.labels[2],
          labelTop |-> positional.labels[3],
          placeholder |-> attributeOrNull(a.placeholder),
          helperText |-> IF a.helper = NullText THEN NullText ELSE cleanText(a.helper),
          name |-> attributeOrNull(a.name),
          id |-> attributeOrNull(a.id) ]
  IN  [ metadata |->
          [ k \in DOMAIN labels \cup {"fieldType", "fieldPurpose"} |->
              IF k = "fieldType" THEN classifyFieldType(element)
              ELSE IF k = "fieldPurpose"
                THEN inferFieldPurpose(labels, a.autocomplete, classifyFieldType(element))
              ELSE labels[k] ],
        labelCache |-> positional.labelCache,
        scans |-> positional.scans ]

\* analyzeField: the metadata, the cache afterwards and the scans run
analyzeField(doc, labelCache, element) ==
  describeField(element,
    positionalLabels(doc, element, <<"left", "right", "top">>,
                     [labels |-> <<>>, labelCache |-> labelCache, scans |-> 0]))

\* -------------------------------------------------------------- FormDetector
ignoredTypes == {"hidden", "submit", "reset", "button", "image", "file", "checkbox", "radio"}

isValidField(element) ==
  /\ ~element.attrs.bwignore
  /\ element.tag # "BUTTON"
  /\ ~(~element.attrs.rendered /\ element.attrs.type # "hidden")
  /\ element.tag = "INPUT" => element.attrs.type \notin ignoredTypes

isFieldElement(node) == node.tag \in {"INPUT", "TEXTAREA", "SELECT"}

\* one call of createDetectedField: the element and the list its result
\* is pushed to (a form's fields, standaloneFields or shadowRootFields)
Target(element, list, form) == [element |-> element, list |-> list, form |-> form]

\* the createDetectedField calls of one tree walk, in the order they are
\* made.  acceptNode runs on every element in document order and first
\* traverses the element's shadow root, whose valid fields go to
\* shadowRootFields; the walk of findFormElements ("forms") creates no
\* field of its own, the walk of findStandaloneFields ("standalone")
\* creates the valid fields outside every form
RECURSIVE walk(_, _, _)
walk(nodes, mode, insideForm) ==
  IF nodes = <<>> THEN <<>>
  ELSE
    LET node == nodes[1]
        own == CASE mode = "forms" -> FALSE
                 [] mode = "shadow" -> isFieldElement(node) /\ isValidField(node)
                 [] mode = "standalone" ->
                      isFieldElement(node) /\ ~insideForm /\ isValidField(node)
    IN  (IF node.shadow # <<>> THEN walk(node.shadow, "shadow", FALSE) ELSE <<>>)
        \o (IF own THEN <<Target(node, mode, 0)>> ELSE <<>>)
        \o walk(node.children, mode, insideForm \/ node.tag = "FORM")
        \o walk(Tail(nodes), mode, insideForm)

findFormElements(doc) == SelectSeq(lightTree(doc), LAMBDA node : node.tag = "FORM")

\* form.elements filtered by isValidField, for the k-th form
findFieldsInForm(form, k) ==
  LET listed(node) == node.tag \in {"INPUT", "TEXTAREA", "SELECT", "BUTTON",
                                     "FIELDSET", "OBJECT", "OUTPUT"}
      valid == SelectSeq(SelectSeq(lightTree(form.children), listed), isValidField)
  IN  [i \in DOMAIN valid |-> Target(valid[i], "form", k)]

RECURSIVE findFieldsInForms(_, _)
findFieldsInForms(formElements, k) ==
  IF k > Len(formElements) THEN <<>>
  ELSE findFieldsInForm(formElements[k], k) \o findFieldsInForms(formElements, k + 1)

\* faulty variant: the counter is read but not advanced
createDetectedField_counterKept(doc, acc, target) ==
  [ fields |-> Append(acc.fields,
                 [ opid |-> FieldOpId(acc.fieldOpidCounter),
                   element |-> target.element.el,
                   metadata |-> analyzeField(doc, acc.labelCache, target.element).metadata,
                   list |-> target.list, form |-> target.form ]),
    labelCache |-> analyzeField(doc, acc.labelCache, target.element).labelCache,
    fieldOpidCounter |-> acc.fieldOpidCounter ]

\* acc: the DetectedFields created so far, the label cache and the counter
createDetectedField(doc, acc, target) ==
  LET analysis == analyzeField(doc, acc.labelCache, target.element)
  IN  [ fields |-> Append(acc.fields,
                     [ opid |-> FieldOpId(acc.fieldOpidCounter),
                       element |-> target.element.el,
                       metadata |-> analysis.metadata,
                       list |-> target.list, form |-> target.form ]),
        labelCache |-> analysis.labelCache,
        fieldOpidCounter |-> acc.fieldOpidCounter + 1 ]

RECURSIVE createDetectedFields(_, _, _)
createDetectedFields(doc, targets, acc) ==
  IF targets = <<>> THEN acc
  ELSE createDetectedFields(doc, Tail(targets), createDetectedField(doc, acc, targets[1]))

NoElement == 0

DetectedForm(opid, element, fields) ==
  [ opid |-> opid, element |-> element,
    fields |-> [ i \in DOMAIN fields |->
                   [ opid |-> fields[i].opid, element |-> fields[i].element,
                     formOpid |-> opid, metadata |-> fields[i].metadata ] ] ]

\* the forms of detectAll put together from the fields created
detectedForms(formElements, created, formOpidCounter) ==
  LET ofList(list, k) ==
        SelectSeq(created.fields, LAMBDA f : f.list = list /\ f.form = k)
      allStandaloneFields == ofList("standalone", 0) \o ofList("shadow", 0)
  IN  [ forms |->
          [ k \in DOMAIN formElements |->
              DetectedForm(FormOpId(formOpidCounter + k - 1), formElements[k].el,
                           ofList("form", k)) ]
          \o (IF allStandaloneFields = <<>> THEN <<>>
              ELSE <<DetectedForm(FormStandalone, NoElement, allStandaloneFields)>>),
        labelCache |-> created.labelCache,
        fieldOpidCounter |-> created.fieldOpidCounter,
        formOpidCounter |-> formOpidCounter + Len(formElements) ]

detectAll(doc, labelCache, formOpidCounter, fieldOpidCounter) ==
  detectedForms(findFormElements(doc),
    createDetectedFields(doc,
      walk(doc, "forms", FALSE)
        \o findFieldsInForms(findFormElements(doc), 1)
        \o walk(doc, "standalone", FALSE),
      [fields |-> <<>>, labelCache |-> labelCache, fieldOpidCounter |-> fieldOpidCounter]),
    formOpidCounter)

\* ------------------------------------------------- content script (handler)
isUnlabeled(metadata) ==
  /\ Falsy(metadata.labelTag) /\ Falsy(metadata.labelAria)
  /\ Falsy(metadata.placeholder) /\ Falsy(metadata.labelLeft)
  /\ Falsy(metadata.labelRight) /\ Falsy(metadata.labelTop)

\* the filter of the detectForms handler
keepForm(form) ==
  /\ Len(form.fields) # 0
  /\ ~( /\ Len(form.fields) = 1
        /\ form.fields[1].metadata.fieldPurpose = "unknown"
        /\ isUnlabeled(form.fields[1].metadata) )

serializeForms(forms) ==
  [ i \in DOMAIN forms |->
      [ opid |-> forms[i].opid,
        fields |-> [ j \in DOMAIN forms[i].fields |->
                       [ opid |-> forms[i].fields[j].opid,
                         formOpid |-> forms[i].fields[j].formOpid,
                         metadata |-> forms[i].fields[j].metadata ] ] ] ]

RECURSIVE totalFields(_)
totalFields(forms) ==
  IF forms = <<>> THEN 0 ELSE Len(forms[1].fields) + totalFields(Tail(forms))

DetectFailed == [success |-> FALSE, forms |-> <<>>, totalFields |-> 0, error |-> "Error"]

\* faulty variant: totalFields counts the fields of the unfiltered forms
detectFormsReply_countsAll(allForms, raises) ==
  IF raises # "none" THEN DetectFailed
  ELSE [ success |-> TRUE, forms |-> serializeForms(SelectSeq(allForms, keepForm)),
         totalFields |-> totalFields(allForms), error |-> "" ]

\* what the handler returns; raises names the call that raises, if any
detectFormsReply(allForms, raises) ==
  IF raises # "none" THEN DetectFailed
  ELSE [ success |-> TRUE, forms |-> serializeForms(SelectSeq(allForms, keepForm)),
         totalFields |-> totalFields(SelectSeq(allForms, keepForm)), error |-> "" ]

\* the texts of the documents explored
PageTxt ==
  [ EmailPadded |-> <<" "," ","E","m","a","i","l","\n"," ","a","d","d","r","e","s","s"," ">>,
    FavoriteBook |-> <<"F","a","v","o","r","i","t","e"," ","B","o","o","k">>,
    Nickname |-> <<"N","i","c","k","n","a","m","e">>,
    PickAny |-> <<"P","i","c","k"," ","a","n","y">>,
    OldLabel |-> <<"O","l","d"," ","l","a","b","e","l">>,
    NewLabel |-> <<"N","e","w"," ","l","a","b","e","l">>,
    City |-> <<"C","i","t","y">>,
    Fullname |-> <<"f","u","l","l","n","a","m","e">>,
    FarOne |-> <<"F","a","r"," ","o","n","e">>,
    MidOne |-> <<"M","i","d"," ","o","n","e">>,
    NearOne |-> <<"N","e","a","r"," ","o","n","e">>,
    Edge |-> <<"E","d","g","e">> ]

\* the rectangle of the field of row r, of a text to its left and of a
\* text above it
FieldRect(r) == Rect(300, 1000 * r, 200, 30)
LeftRect(r) == Rect(100, 1000 * r, 180, 30)
TopRect(r) == Rect(300, 1000 * r - 40, 200, 30)

Element(tag, el, children, shadow) == Node(tag, el, children, shadow, NullText, Rect(0, 0, 0, 0), NoAttrs)
Span(el, text, rect) == Node("SPAN", el, <<>>, <<>>, text, rect, NoAttrs)
Input(el, r, attrs) == Node("INPUT", el, <<>>, <<>>, NullText, FieldRect(r), attrs)

\* the subtrees a document is put together from: a form of one e-mail
\* field with a text to its left; a form of one field without any label; a
\* field with a data-label only; a host whose shadow root holds a field
\* and a host with a field of its own; a field with a text above it; a
\* form of a labelled field, a hidden field and a named field; a field
\* with a helper text only; a field with three texts to its left, 150,
\* 100 and 20 away in document order; a field with a text exactly 200 to
\* its left; a hidden field, a password field and a text field
Subtrees ==
  << Element("FORM", 1,
       << Span(2, PageTxt.EmailPadded, LeftRect(1)),
          Input(3, 1, [NoAttrs EXCEPT !.type = "email"]) >>, <<>>),
     Element("FORM", 4, << Input(5, 2, [NoAttrs EXCEPT !.type = "text"]) >>, <<>>),
     Input(6, 3, [NoAttrs EXCEPT !.type = "text", !.dataLabel = PageTxt.FavoriteBook]),
     Element("DIV", 7, <<>>,
       << Input(8, 4, [NoAttrs EXCEPT !.type = "text", !.placeholder = PageTxt.Nickname]),
          Element("DIV", 9, <<>>,
            << Input(10, 4, [NoAttrs EXCEPT !.type = "tel"]) >>) >>),
     Element("DIV", 11,
       << Span(12, PageTxt.OldLabel, TopRect(5)),
          Input(13, 5, [NoAttrs EXCEPT !.type = "text"]) >>, <<>>),
     Element("FORM", 14,
       << Input(15, 6, [NoAttrs EXCEPT !.type = "text", !.label = PageTxt.City]),
          Input(16, 6, [NoAttrs EXCEPT !.type = "hidden", !.rendered = FALSE]),
          Input(17, 6, [NoAttrs EXCEPT !.type = "text", !.name = PageTxt.Fullname,
                                       !.bwignore = TRUE]) >>, <<>>),
     Input(18, 7, [NoAttrs EXCEPT !.type = "text", !.helper = PageTxt.PickAny]),
     Element("DIV", 19,
       << Span(20, PageTxt.FarOne, Rect(50, 8000, 100, 30)),
          Span(21, PageTxt.MidOne, Rect(100, 8000, 100, 30)),
          Span(22, PageTxt.NearOne, Rect(180, 8000, 100, 30)),
          Input(23, 8, [NoAttrs EXCEPT !.type = "text"]) >>, <<>>),
     Element("DIV", 24,
       << Span(25, PageTxt.Edge, Rect(0, 9000, 100, 30)),
          Input(26, 9, [NoAttrs EXCEPT !.type = "text"]) >>, <<>>),
     Element("DIV", 27,
       << Input(28, 10, [NoAttrs EXCEPT !.type = "hidden", !.rendered = FALSE]),
          Input(29, 10, [NoAttrs EXCEPT !.type = "password"]),
          Input(30, 11, [NoAttrs EXCEPT !.type = "text", !.placeholder = PageTxt.Nickname]) >>,
       <<>>) >>

\* a document: up to MaxNodes of the subtrees, each at most once
Documents ==
  { [i \in DOMAIN s |-> Subtrees[s[i]]] :
      s \in { t \in SeqsUpTo(DOMAIN Subtrees, MaxNodes) :
                \A i, j \in DOMAIN t : i # j => t[i] # t[j] } }

\* a mutation of the tree: the texts are rewritten, or they are removed
RECURSIVE mutate(_, _)
mutate(nodes, kind) ==
  [ i \in DOMAIN nodes |->
      [ nodes[i] EXCEPT
          !.children = mutate(nodes[i].children, kind),
          !.text = IF nodes[i].text = NullText \/ kind = "remove"
                     THEN NullText ELSE PageTxt.NewLabel ] ]

\* ------------------------------------------------------------- state machine
VARIABLES
  forms,    \* the DetectedFormSnapshots of the page (the detectForms reply)
  store,    \* store.memories: the MemoryEntry list in storage
  call,     \* the last operation invoked and the inputs it read
  result,   \* what that operation returned
  handed,   \* the matcher invocations that operation made
  doc,               \* the page: the top-level nodes of document.body
  labelCache,        \* FieldAnalyzer.labelCache
  formOpidCounter,   \* FormDetector.formOpidCounter
  fieldOpidCounter,  \* FormDetector.fieldOpidCounter
  formCache,         \* the DetectedForms cached by the last request
  reply,             \* the reply to the last detectForms message
  passes,            \* the detectForms requests handled so far
  last,              \* the last step of the content script
  pc,                \* the next step of startAutofillOnActiveTab
  shown,             \* the progress states shown by the UI, in order
  run                \* the settings and the locals of the autofill run

vars == <<forms, store, call, result, handed, doc, labelCache, formOpidCounter,
          fieldOpidCounter, formCache, reply, passes, last, pc, shown, run>>

EmptyCache == [e \in {} |-> NullText]
NoReply == [success |-> FALSE, forms |-> <<>>, totalFields |-> 0, error |-> "none yet"]
matcherVars == <<forms, store, call, result, handed>>
contentVars == <<doc, labelCache, formOpidCounter, fieldOpidCounter, formCache, reply, passes, last>>

\* the content script before its first request, on an empty page
ContentIdle ==
  /\ doc = <<>>
  /\ labelCache = EmptyCache
  /\ formOpidCounter = 0
  /\ fieldOpidCounter = 0
  /\ formCache = <<>>
  /\ reply = NoReply
  /\ passes = 0
  /\ last = [op |-> "none"]

pipelineVars == <<pc, shown, run>>

\* delivered: the showPreview message reached its handler; faulted: a
\* message, a session call or a display failed from that message on
RunIdle == [ autopilotMode |-> FALSE, tabId |-> FALSE, sessionId |-> FALSE,
             processing |-> "none", outcome |-> "running",
             delivered |-> FALSE, faulted |-> FALSE ]

\* no autofill run under way
PipelineIdle ==
  /\ pc = "done"
  /\ shown = <<>>
  /\ run = RunIdle


\* a page: its fields carry the opids __0, __1, ... in document order; the
\* first field sits in a form element, the others are standalone
Page(metas) ==
  LET field(i, formOpid) ==
        [opid |-> FieldOpId(i - 1), formOpid |-> formOpid, metadata |-> metas[i]]
  IN  IF metas = <<>> THEN <<>>
      ELSE IF Len(metas) = 1
        THEN << [opid |-> FormOpId(0), fields |-> <<field(1, FormOpId(0))>>] >>
        ELSE << [opid |-> FormOpId(0), fields |-> <<field(1, FormOpId(0))>>],
                [opid |-> FormStandalone,
                 fields |-> [i \in 1..(Len(metas) - 1) |-> field(i + 1, FormStandalone)]] >>

Pages == { Page(metas) : metas \in SeqsUpTo(FieldTemplates, MaxFields) }

Reverse(s) == [i \in DOMAIN s |-> s[Len(s) + 1 - i]]

\* a store: up to MaxRecords consecutive entries of the catalog, oldest or
\* newest first (record ids are unique)
Stores ==
  { SubSeq(c, i, j) :
      c \in {MemoryCatalog, Reverse(MemoryCatalog)},
      i \in 1..(Len(MemoryCatalog) + 1), j \in 0..Len(MemoryCatalog) }
  \cap SeqsUpTo(Range(MemoryCatalog), MaxRecords)

Providers == {NoProvider, "openai", "mistral"}
\* settings.confidenceThreshold: its default and the values the user may set
DefaultThreshold == Pct(60)
Thresholds == {0, Pct(45), DefaultThreshold, One}
ApiKeys == {NoKey, "sk-key"}

Idle == [op |-> "idle", apiKey |-> NoKey, provider |-> NoProvider,
         outcome |-> "unused", storageFails |-> FALSE,
         confidenceThreshold |-> DefaultThreshold]
NoCalls == [matchers |-> {}, fields |-> <<>>, memories |-> <<>>]

Init ==
  /\ forms \in Pages
  /\ store \in Stores
  /\ call = Idle
  /\ result = Return(<<>>)
  /\ handed = NoCalls
  /\ ContentIdle
  /\ PipelineIdle

AllFields == [i \in DOMAIN flatMapFields(forms) |-> compressField(flatMapFields(forms)[i])]
AllMemories == [i \in DOMAIN store |-> compressMemory(store[i])]

OutcomesIf(consults) == IF consults THEN ModelOutcomes ELSE {"unused"}

\* Each operation is awaited by its caller: it starts from the idle state
\* and Complete hands its result over, after which the next one may start.

\* FallbackMatcher.matchFields(F, R)
RunFallbackMatcher ==
  /\ call = Idle
  /\ call' = [Idle EXCEPT !.op = "FallbackMatcher.matchFields"]
  /\ result' = FallbackMatcher_matchFields(AllFields, AllMemories)
  /\ handed' = [matchers |-> {"FallbackMatcher"}, fields |-> AllFields, memories |-> AllMemories]
  /\ UNCHANGED <<forms, store, contentVars, pipelineVars>>

\* AIMatcher.matchFields(F, R, provider, apiKey)
RunAIMatcher ==
  /\ call = Idle
  /\ \E provider \in Providers \ {NoProvider} :
    \E outcome \in OutcomesIf(ConsultsModel(AllFields, AllMemories, provider)) :
      /\ call' = [Idle EXCEPT !.op = "AIMatcher.matchFields", !.apiKey = "sk-key",
                              !.provider = provider, !.outcome = outcome]
      /\ result' = AIMatcher_matchFields(AllFields, AllMemories, provider, "sk-key", outcome)
      /\ handed' = [matchers |-> {"AIMatcher"}, fields |-> AllFields, memories |-> AllMemories]
      /\ UNCHANGED <<forms, store, contentVars, pipelineVars>>

\* AutofillService.matchFields(fields, memories, apiKey), as processForms calls it
RunMatchFields ==
  /\ call = Idle
  /\ \E provider \in Providers, apiKey \in ApiKeys :
    LET args == processForms_matchArgs(forms, store)
        consults ==
          /\ provider # NoProvider /\ apiKey # NoKey
          /\ ConsultsModel([i \in DOMAIN args.fields |-> compressField(args.fields[i])],
                           [i \in DOMAIN args.memories |-> compressMemory(args.memories[i])],
                           provider)
    IN  \E outcome \in OutcomesIf(consults) :
          /\ call' = [Idle EXCEPT !.op = "AutofillService.matchFields", !.apiKey = apiKey,
                                  !.provider = provider, !.outcome = outcome]
          /\ result' = AutofillService_matchFields(args.fields, args.memories,
                                                   apiKey, provider, outcome)
          /\ handed' = matchFieldsCalls(args.fields, args.memories, apiKey, provider, outcome)
          /\ UNCHANGED <<forms, store, contentVars, pipelineVars>>

\* AutofillService.processForms(forms, pageUrl, apiKey)
RunProcessForms ==
  /\ call = Idle
  /\ \E provider \in Providers, apiKey \in ApiKeys, storageFails \in BOOLEAN :
    LET args == processForms_matchArgs(forms, store)
        matches == processForms_matches(forms, store, storageFails)
        consults ==
          /\ matches
          /\ provider # NoProvider /\ apiKey # NoKey
          /\ ConsultsModel([i \in DOMAIN args.fields |-> compressField(args.fields[i])],
                           [i \in DOMAIN args.memories |-> compressMemory(args.memories[i])],
                           provider)
    IN  \E outcome \in OutcomesIf(consults) :
          /\ call' = [op |-> "AutofillService.processForms", apiKey |-> apiKey,
                      provider |-> provider, outcome |-> outcome,
                      storageFails |-> storageFails,
                      confidenceThreshold |-> DefaultThreshold]
          /\ result' = processForms(forms, store, storageFails, apiKey, provider, outcome)
          /\ handed' = IF matches
                         THEN matchFieldsCalls(args.fields, args.memories,
                                               apiKey, provider, outcome)
                         ELSE NoCalls
          /\ UNCHANGED <<forms, store, contentVars, pipelineVars>>

\* AutofillService.buildPreviewPayload(forms, processingResult, sessionId)
\* on the result of processForms, as startAutofillOnActiveTab calls it
RunBuildPreviewPayload ==
  /\ call = Idle
  /\ \E provider \in Providers, apiKey \in ApiKeys, storageFails \in BOOLEAN,
        confidenceThreshold \in Thresholds :
    LET args == processForms_matchArgs(forms, store)
        matches == processForms_matches(forms, store, storageFails)
        consults ==
          /\ matches
          /\ provider # NoProvider /\ apiKey # NoKey
          /\ ConsultsModel([i \in DOMAIN args.fields |-> compressField(args.fields[i])],
                           [i \in DOMAIN args.memories |-> compressMemory(args.memories[i])],
                           provider)
    IN  \E outcome \in OutcomesIf(consults) :
          /\ call' = [op |-> "AutofillService.buildPreviewPayload", apiKey |-> apiKey,
                      provider |-> provider, outcome |-> outcome,
                      storageFails |-> storageFails,
                      confidenceThreshold |-> confidenceThreshold]
          /\ result' = buildPreviewPayload(
                         forms,
                         processForms(forms, store, storageFails, apiKey, provider, outcome),
                         SessionId, confidenceThreshold)
          /\ handed' = NoCalls
          /\ UNCHANGED <<forms, store, contentVars, pipelineVars>>

\* the caller takes the result
Complete ==
  /\ call # Idle
  /\ call' = Idle
  /\ result' = Return(<<>>)
  /\ handed' = NoCalls
  /\ UNCHANGED <<forms, store, contentVars, pipelineVars>>

Next ==
  \/ Complete
  \/ RunFallbackMatcher
  \/ RunAIMatcher
  \/ RunMatchFields
  \/ RunProcessForms
  \/ RunBuildPreviewPayload

Spec == Init /\ [][Next]_vars

\* ------------------------------------------- content script (state machine)
Raises == {"none", "detectAll", "serializeForms"}
Directions == {"left", "right", "top"}

\* the whole tree, shadow roots included
RECURSIVE composedTree(_)
composedTree(nodes) ==
  IF nodes = <<>> THEN <<>>
  ELSE <<nodes[1]>> \o composedTree(nodes[1].shadow)
         \o composedTree(nodes[1].children) \o composedTree(Tail(nodes))

FieldElements(nodes) ==
  { node \in Range(composedTree(nodes)) : isFieldElement(node) /\ isValidField(node) }

DetectInit ==
  /\ forms = <<>>
  /\ store = <<>>
  /\ call = Idle
  /\ result = Return(<<>>)
  /\ handed = NoCalls
  /\ doc \in Documents
  /\ labelCache = EmptyCache
  /\ formOpidCounter = 0
  /\ fieldOpidCounter = 0
  /\ formCache = <<>>
  /\ reply = NoReply
  /\ passes = 0
  /\ last = [op |-> "none"]
  /\ PipelineIdle

\* the handler of the detectForms message on the outcome of detectAll
HandleDetectForms(detected, raises) ==
  /\ passes' = passes + 1
  /\ reply' = detectFormsReply(detected.forms, raises)
  /\ last' = [ op |-> "detectForms", raises |-> raises,
               allForms |-> IF raises = "detectAll" THEN <<>> ELSE detected.forms ]
  /\ IF raises = "detectAll"
       THEN UNCHANGED <<labelCache, formOpidCounter, fieldOpidCounter, formCache>>
       ELSE /\ labelCache' = detected.labelCache
            /\ formOpidCounter' = detected.formOpidCounter
            /\ fieldOpidCounter' = detected.fieldOpidCounter
            /\ formCache' = SelectSeq(detected.forms, keepForm)
  /\ UNCHANGED doc
  /\ UNCHANGED <<matcherVars, pipelineVars>>

\* contentAutofillMessaging.onMessage("detectForms", ...)
RunDetectForms ==
  /\ passes < MaxPasses
  /\ \E raises \in Raises :
       HandleDetectForms(detectAll(doc, labelCache, formOpidCounter, fieldOpidCounter),
                         raises)

\* the page rewrites or removes its texts between two requests
Mutate ==
  \E kind \in {"rewrite", "remove"} :
    /\ passes >= 1
    /\ passes < MaxPasses
    /\ mutate(doc, kind) # doc
    /\ doc' = mutate(doc, kind)
    /\ last' = [op |-> "mutate", kind |-> kind]
    /\ UNCHANGED <<labelCache, formOpidCounter, fieldOpidCounter, formCache, reply, passes>>
    /\ UNCHANGED <<matcherVars, pipelineVars>>

LookedUpTwice(element, direction, first, second) ==
  /\ last' = [ op |-> "findPositionalLabel", element |-> element.el,
               direction |-> direction,
               first |-> first.label, second |-> second.label,
               scans |-> <<first.scans, second.scans>> ]
  /\ labelCache' = second.labelCache

LookedUpOnce(element, direction, first) ==
  LookedUpTwice(element, direction, first,
                findPositionalLabel(doc, first.labelCache, element, direction))

\* findPositionalLabel called twice in a row for one element and direction
RunLookupTwice ==
  \E element \in FieldElements(doc) : \E direction \in Directions :
    /\ LookedUpOnce(element, direction,
                    findPositionalLabel(doc, labelCache, element, direction))
    /\ UNCHANGED <<doc, formOpidCounter, fieldOpidCounter, formCache, reply, passes>>
    /\ UNCHANGED <<matcherVars, pipelineVars>>

\* document.querySelector('[data-wxt-field-opid="..."]'): the attribute is
\* set by no code of the extension and the pages explored do not carry it
querySelectorByOpid(nodes, opid) == NoElement

\* document.querySelectorAll('input, textarea, select'): the light DOM in
\* document order
querySelectorAllInputs(nodes) == SelectSeq(lightTree(nodes), isFieldElement)

\* the element the fill loop of executeAutofill picks for one opid
\* (`__${n}`: parseInt of the text after the two underscores is n)
fillTarget(nodes, opid) ==
  LET allInputs == querySelectorAllInputs(nodes)
      index == opid[2]
  IN  IF querySelectorByOpid(nodes, opid) # NoElement
        THEN querySelectorByOpid(nodes, opid)
      ELSE IF opid[1] = "__" /\ index + 1 \in DOMAIN allInputs
        THEN allInputs[index + 1].el
      ELSE NoElement

\* the element whose value the fill loop sets for one opid, if any
fillWrite(nodes, opid) ==
  LET element == fillTarget(nodes, opid)
  IN  IF element # NoElement
           /\ (CHOOSE node \in Range(lightTree(nodes)) : node.el = element).attrs.type
                # "password"
        THEN element
        ELSE NoElement

\* the opids of the fields a mapping can name: the non-password fields of
\* the forms the last detectForms reply delivered
FillableOpids ==
  { field.opid :
      field \in { f \in UNION { Range(reply.forms[i].fields) : i \in DOMAIN reply.forms } :
                    f.metadata.fieldType # "password" } }

\* AutopilotManager.executeAutofill: the fill loop over fieldsToFill
RunExecuteAutofill ==
  /\ reply.success
  /\ \E fieldsToFill \in (SUBSET FillableOpids) \ {{}} :
       /\ fieldsToFill = FillableOpids \/ Cardinality(fieldsToFill) = 1
       /\ last' = [ op |-> "executeAutofill",
                    writes |-> { [opid |-> opid, element |-> fillWrite(doc, opid)] :
                                   opid \in fieldsToFill } ]
  /\ UNCHANGED <<doc, labelCache, formOpidCounter, fieldOpidCounter, formCache, reply, passes>>
  /\ UNCHANGED <<matcherVars, pipelineVars>>

DetectNext ==
  \/ RunDetectForms
  \/ Mutate
  \/ RunLookupTwice
  \/ RunExecuteAutofill

DetectSpec == DetectInit /\ [][DetectNext]_vars

\* ============================================== the autofill run (progress)
ProgressStates == <<"idle", "detecting", "analyzing", "matching",
                    "showing-preview", "filling", "completed">>

\* what processForms returned: a failure (no mappings), no mapping at all,
\* mappings of which none is to be filled, mappings to fill
ProcessingKinds == {"failed", "empty", "belowThreshold", "fill"}

\* the message of executeAutofill and processAutofillData that fails, if
\* any; in preview mode, whether PreviewSidebarManager.show raises
AutopilotFailures == {"none", "saveFormMappings", "status filling", "status completed"}
PreviewFailures == {"none", "show"}

\* AutopilotManager.showProgress: currentProgress is set unless
\* initialize() raises, which showProgress swallows
showProgress(sofar, state, displayed) ==
  IF displayed THEN Append(sofar, state) ELSE sofar

\* the updateProgress handler of the content script
updateProgress(sofar, state, autopilotMode, displayed) ==
  IF autopilotMode /\ state \in {"showing-preview", "completed"}
    THEN sofar
    ELSE showProgress(sofar, state, displayed)

\* AutopilotManager.executeAutofill; displayed: the showProgress calls (by
\* number: detecting 1, filling 2, completed 3, failed 4) that do not raise
executeAutofill(sofar, kind, failure, displayed) ==
  IF kind # "fill" THEN sofar
  ELSE IF failure = "status filling"
    THEN showProgress(showProgress(sofar, "filling", 2 \in displayed),
                      "failed", 4 \in displayed)
  ELSE IF failure = "status completed"
    THEN showProgress(
           showProgress(showProgress(sofar, "filling", 2 \in displayed),
                        "completed", 3 \in displayed),
           "failed", 4 \in displayed)
  ELSE showProgress(showProgress(sofar, "filling", 2 \in displayed),
                    "completed", 3 \in displayed)

\* AutopilotManager.processAutofillData
processAutofillData(sofar, kind, failure, displayed) ==
  IF kind \in {"failed", "empty"} THEN sofar
  ELSE IF failure = "saveFormMappings" /\ kind = "fill"
    THEN showProgress(sofar, "detecting", 1 \in displayed)
  ELSE executeAutofill(showProgress(sofar, "detecting", 1 \in displayed),
                       kind, failure, displayed)

\* the showPreview handler of the content script; in preview mode the
\* sidebar is sofar, and a raise of show() is reported as failed
showPreview(sofar, autopilotMode, kind, failure, displayed) ==
  IF autopilotMode
    THEN processAutofillData(sofar, kind, failure, displayed)
    ELSE IF failure = "none" THEN sofar
         ELSE showProgress(sofar, "failed", 4 \in displayed)

\* -------------------------------------------- the autofill run (state machine)
RunInit ==
  /\ forms = <<>>
  /\ store = <<>>
  /\ call = Idle
  /\ result = Return(<<>>)
  /\ handed = NoCalls
  /\ ContentIdle
  /\ pc = "tabs.query"
  /\ shown = <<>>
  /\ run \in { [RunIdle EXCEPT !.autopilotMode = m] : m \in BOOLEAN }

\* control leaves the try block for the catch block
Throw == pc' = "catch"

\* one updateProgress message of the try block: it is not delivered, or
\* the handler runs and answers
SendProgress(state, next) ==
  /\ \E delivered, displayed \in BOOLEAN :
       IF delivered
         THEN /\ shown' = updateProgress(shown, state, run.autopilotMode, displayed)
              /\ pc' = next
         ELSE /\ Throw
              /\ UNCHANGED shown
  /\ UNCHANGED run
  /\ UNCHANGED <<matcherVars, contentVars>>

\* one call of the session service in the try block
SessionCall(next) ==
  /\ \E ok \in BOOLEAN :
       /\ pc' = IF ok THEN next ELSE "catch"
       /\ run' = IF pc = "startSession" THEN [run EXCEPT !.sessionId = ok] ELSE run
  /\ UNCHANGED shown
  /\ UNCHANGED <<matcherVars, contentVars>>

\* browser.tabs.query
QueryTab ==
  /\ pc = "tabs.query"
  /\ \E found \in BOOLEAN :
       /\ run' = [run EXCEPT !.tabId = found]
       /\ pc' = IF found THEN "detecting" ELSE "catch"
  /\ UNCHANGED shown
  /\ UNCHANGED <<matcherVars, contentVars>>

SendDetecting ==
  /\ pc = "detecting"
  /\ SendProgress("detecting", "startSession")

\* sessionService.startSession
StartSession ==
  /\ pc = "startSession"
  /\ SessionCall("detectForms")

\* the detectForms message and the test of result.success
SendDetectForms ==
  /\ pc = "detectForms"
  /\ \E success \in BOOLEAN : pc' = IF success THEN "analyzing" ELSE "catch"
  /\ UNCHANGED <<shown, run>>
  /\ UNCHANGED <<matcherVars, contentVars>>

SendAnalyzing ==
  /\ pc = "analyzing"
  /\ SendProgress("analyzing", "status matching")

\* sessionService.updateSessionStatus(sessionId, "matching")
StatusMatching ==
  /\ pc = "status matching"
  /\ SessionCall("matching")

SendMatching ==
  /\ pc = "matching"
  /\ SendProgress("matching", "processForms")

\* this.processForms, which returns its failures
CallProcessForms ==
  /\ pc = "processForms"
  /\ \E kind \in ProcessingKinds : run' = [run EXCEPT !.processing = kind]
  /\ pc' = "status reviewing"
  /\ UNCHANGED shown
  /\ UNCHANGED <<matcherVars, contentVars>>

\* sessionService.updateSessionStatus(sessionId, "reviewing")
StatusReviewing ==
  /\ pc = "status reviewing"
  /\ SessionCall("showing-preview")

SendShowingPreview ==
  /\ pc = "showing-preview"
  /\ SendProgress("showing-preview", "showPreview")

\* the showPreview message inside its own try/catch, then the test of
\* processingResult.success
SendShowPreview ==
  /\ pc = "showPreview"
  /\ \E delivered \in BOOLEAN :
     \E failure \in IF run.autopilotMode THEN AutopilotFailures ELSE PreviewFailures :
     \E displayed \in SUBSET (1..4) :
       /\ shown' = IF delivered
                     THEN showPreview(shown, run.autopilotMode, run.processing,
                                      failure, displayed)
                     ELSE shown
       /\ run' = [run EXCEPT
                    !.delivered = delivered,
                    !.faulted = failure # "none" \/ displayed # 1..4,
                    !.outcome = IF run.processing = "failed" THEN @ ELSE "success"]
  /\ IF run.processing = "failed" THEN Throw ELSE pc' = "done"
  /\ UNCHANGED <<matcherVars, contentVars>>

\* the catch block: updateSessionStatus(failed) when a session was
\* started, then updateProgress(failed) inside its own try/catch
Catch ==
  /\ pc = "catch"
  /\ pc' = "done"
  /\ \E statusOk, delivered, displayed \in BOOLEAN :
       IF run.sessionId /\ ~statusOk
         THEN /\ run' = [run EXCEPT !.outcome = "rejected", !.faulted = TRUE]
              /\ UNCHANGED shown
         ELSE /\ run' = [run EXCEPT !.outcome = "failure",
                                    !.faulted = @ \/ ~delivered \/ ~displayed]
              /\ shown' = IF run.tabId /\ delivered
                            THEN updateProgress(shown, "failed", run.autopilotMode, displayed)
                            ELSE shown
  /\ UNCHANGED <<matcherVars, contentVars>>

RunNext ==
  \/ QueryTab
  \/ SendDetecting
  \/ StartSession
  \/ SendDetectForms
  \/ SendAnalyzing
  \/ StatusMatching
  \/ SendMatching
  \/ CallProcessForms
  \/ StatusReviewing
  \/ SendShowingPreview
  \/ SendShowPreview
  \/ Catch

RunSpec == RunInit /\ [][RunNext]_vars

\* ------------------------------------------------------------------- claims
\* the mapping list the last operation returned
Mappings ==
  IF call.op \in {"AutofillService.processForms", "AutofillService.buildPreviewPayload"}
    THEN result.mappings ELSE result.value

\* the model replied and generateObject accepted the reply
ModelCallSucceeded == call.outcome # "unused" /\ ~generateObjectRaises(call.outcome)

\* ms holds one mapping per field of fs, in the order of fs
OnePerField(ms, fs) ==
  /\ Len(ms) = Len(fs)
  /\ \A i \in DOMAIN fs : ms[i].fieldOpid = fs[i].opid

\* C1: FallbackMatcher.matchFields(F, R) returns |F| mappings in the order
\* of F, the i-th carrying the opid of the i-th field, also when R is empty,
\* when no record scores above 0 and when the scorer raises.
C1_FallbackOnePerField ==
  call.op = "FallbackMatcher.matchFields" =>
    ~result.threw /\ OnePerField(result.value, AllFields)

\* two fields matched against a store holding a record the scorer raises on
C1_Witness ==
  /\ call.op = "FallbackMatcher.matchFields"
  /\ Len(AllFields) >= 2
  /\ \E i \in DOMAIN AllMemories : categoryRaises(AllMemories[i])
  /\ OnePerField(result.value, AllFields)

\* C2: when the model call succeeds, AIMatcher.matchFields returns one
\* mapping per field of F in the order of F, whatever matches the model
\* returned.
C2_AIOnePerField ==
  (call.op = "AIMatcher.matchFields" /\ ModelCallSucceeded) =>
    ~result.threw /\ OnePerField(result.value, AllFields)

\* the fields processForms processes: non-password, capped
Processed ==
  slice(SelectSeq(flatMapFields(forms), IsNotPassword), MAX_FIELDS_PER_PAGE)

\* what the matcher returned to processForms
MatcherMappings ==
  AutofillService_matchFields(processForms_matchArgs(forms, store).fields,
                              processForms_matchArgs(forms, store).memories,
                              call.apiKey, call.provider, call.outcome).value

CombinedPerProcessedField ==
  /\ OnePerField(result.mappings, Processed)
  /\ \A i \in DOMAIN Processed :
       ( /\ handed.matchers # {}
         /\ ~\E j \in DOMAIN MatcherMappings :
               MatcherMappings[j].fieldOpid = Processed[i].opid )
       => result.mappings[i] = createEmptyMapping(Processed[i].opid, "No mapping generated")
  /\ \A i \in DOMAIN result.mappings :
       \E k \in DOMAIN Processed : result.mappings[i].fieldOpid = Processed[k].opid

C4_ConfidenceAndAlternativesBounded ==
  \A i \in DOMAIN Mappings :
    /\ 0 <= Mappings[i].confidence /\ Mappings[i].confidence <= One
    /\ Len(Mappings[i].alternativeMatches) <= 3
    /\ \A k \in DOMAIN Mappings[i].alternativeMatches :
         /\ 0 <= Mappings[i].alternativeMatches[k].confidence
         /\ Mappings[i].alternativeMatches[k].confidence <= One

\* five records score above 0 for a field and three become alternatives
C4_Witness ==
  /\ call.op = "FallbackMatcher.matchFields"
  /\ \E i \in DOMAIN Mappings :
       /\ Len(Mappings[i].alternativeMatches) = 3
       /\ Cardinality({ k \in DOMAIN AllMemories :
                          ScoreTable[Scored(AllFields[i]), AllMemories[k]] > 0 }) >= 5

\* C5: no alternative of a mapping carries the record id of the mapping's
\* primary match.
C5_NoAlternativeIsPrimary ==
  \A i \in DOMAIN Mappings :
    \A k \in DOMAIN Mappings[i].alternativeMatches :
      Mappings[i].alternativeMatches[k].memoryId # Mappings[i].memoryId

\* C6: when the model call fails, AIMatcher.matchFields does not raise and
\* returns the list FallbackMatcher.matchFields returns for the same (F, R).
C6_FailureDelegatesToFallback ==
  ( /\ call.op = "AIMatcher.matchFields"
    /\ AllFields # <<>> /\ AllMemories # <<>>
    /\ performAIMatching(AllFields, AllMemories,
                         call.provider, call.apiKey, call.outcome).threw )
  => /\ ~result.threw
     /\ result = FallbackMatcher_matchFields(AllFields, AllMemories)

\* the reply fails schema validation and the fallback finds a match
C6_Witness ==
  /\ call.op = "AIMatcher.matchFields"
  /\ call.outcome = "tooSure"
  /\ \E i \in DOMAIN result.value : result.value[i].memoryId # Null

\* C7: AutofillService.matchFields never raises: without provider, without
\* API key, when the AI matcher fails and when the scorer raises it returns
\* one mapping per field it was given.
C7_MatchFieldsNeverRaises ==
  call.op = "AutofillService.matchFields" =>
    /\ ~result.threw
    /\ ~ModelCallSucceeded => OnePerField(result.value, handed.fields)

\* no provider is configured and the scorer raises on a record
C7_Witness ==
  /\ call.op = "AutofillService.matchFields"
  /\ call.provider = NoProvider
  /\ handed.fields # <<>>
  /\ \E i \in DOMAIN handed.memories : categoryRaises(handed.memories[i])
  /\ ~result.threw

\* C9: no password field is in the field list processForms hands to a
\* matcher.
C9_NoPasswordHandedToMatcher ==
  call.op = "AutofillService.processForms" =>
    \A i \in DOMAIN handed.fields : handed.fields[i].type # "password"

\* C10: the field {purpose email, labels ["Email Address"]} against the one
\* record r1 {"what's your email", "a@b.com", "contact"} is matched to r1
\* with confidence >= 0.6.
C10_EmailScenario ==
  ( /\ call.op = "FallbackMatcher.matchFields"
    /\ forms = Page(<<EmailAddressInput>>)
    /\ store = <<MemoryCatalog[2]>> )
  => /\ result.value[1].memoryId = "r1"
     /\ result.value[1].confidence >= Pct(60)

\* the tokens of a record's texts and those of a field's labels and context
MemoryTokens(memory) ==
  tokenize(Interp(memory.question) \o <<" ">> \o Interp(memory.answer)
           \o <<" ">> \o Interp(memory.category))
FieldTokens(field) == tokenize(join(field.labels, <<" ">>) \o <<" ">> \o field.context)

\* a contact or address record sharing no token with the field
IsUnrelatedContactRecord(field, memory) ==
  /\ memory.category \in {Txt.Contact, Txt.Address}
  /\ MemoryTokens(memory) \cap FieldTokens(field) = {}

IsFavoriteBookField(field) ==
  field.purpose = "unknown" /\ field.labels = <<Txt.FavoriteBook>>

\* C11: FallbackMatcher.matchFields on the field {purpose unknown, labels
\* ["Favorite Book"]} against records that are all contact/address records
\* sharing no token with the field returns memoryId null, value null and a
\* confidence below 0.35.
C11_UnknownFieldStaysUnmatched ==
  call.op = "FallbackMatcher.matchFields" =>
    \A i \in DOMAIN AllFields :
      ( /\ IsFavoriteBookField(AllFields[i])
        /\ \A k \in DOMAIN AllMemories :
             IsUnrelatedContactRecord(AllFields[i], AllMemories[k]) )
      => /\ result.value[i].memoryId = Null
         /\ result.value[i].value = NullText
         /\ result.value[i].confidence < MIN_MATCH_CONFIDENCE

\* the Favorite Book field scored against three contact/address records
C11_Witness ==
  /\ call.op = "FallbackMatcher.matchFields"
  /\ Len(AllMemories) >= 3
  /\ \E i \in DOMAIN AllFields :
       /\ IsFavoriteBookField(AllFields[i])
       /\ \A k \in DOMAIN AllMemories :
            IsUnrelatedContactRecord(AllFields[i], AllMemories[k])
       /\ result.value[i].memoryId = Null

\* what processForms handed buildPreviewPayload in the last operation
PreviewInput ==
  processForms(forms, store, call.storageFails, call.apiKey, call.provider,
               call.outcome).mappings

\* the fields of a mapping other than the auto-fill flag
WithoutAutoFill(mapping) == [k \in (DOMAIN mapping) \ {"autoFill"} |-> mapping[k]]

IsMalformed(memory) ==
  Falsy(memory.answer) \/ Falsy(memory.question) \/ Falsy(memory.category)

IsWellFormed(memory) == ~IsMalformed(memory)

MalformedIds == { AllMemories[k].id : k \in { j \in DOMAIN AllMemories : IsMalformed(AllMemories[j]) } }

\* C19: a malformed record is skipped by the matcher: it is never a primary
\* or an alternative match, and every field is matched as it is against
\* the well-formed records alone.
C19_MalformedRecordSkipped ==
  call.op = "FallbackMatcher.matchFields" =>
    /\ \A i \in DOMAIN result.value :
         /\ result.value[i].memoryId \notin MalformedIds
         /\ \A k \in DOMAIN result.value[i].alternativeMatches :
              result.value[i].alternativeMatches[k].memoryId \notin MalformedIds
    /\ \A i \in DOMAIN result.value :
         result.value[i].memoryId =
           FallbackMatcher_matchFields(AllFields,
             SelectSeq(AllMemories, IsWellFormed)).value[i].memoryId


\* C13: the detectForms handler always answers: with success, the forms
\* and a totalFields equal to the sum of the field counts of the forms it
\* returns, or, when detection or serialization raised, with the failure
\* reply of no forms, zero fields and the error message.
C13_DetectFormsAlwaysReplies ==
  last.op = "detectForms" =>
    IF last.raises = "none"
      THEN /\ reply.success
           /\ reply.totalFields = totalFields(reply.forms)
           /\ reply.forms = serializeForms(formCache)
      ELSE /\ ~reply.success
           /\ reply.forms = <<>>
           /\ reply.totalFields = 0
           /\ reply.error = "Error"

\* a successful reply of several fields from which the filter removed a form
C13_Witness ==
  /\ last.op = "detectForms"
  /\ reply.success
  /\ reply.totalFields >= 2
  /\ Len(last.allForms) > Len(reply.forms)


\* label text in any channel: explicit label, ARIA label, positional
\* left, right or top, data-attribute label, helper text, placeholder
HasLabelText(metadata) ==
  \E k \in {"labelTag", "labelAria", "labelLeft", "labelRight", "labelTop",
            "labelData", "helperText", "placeholder"} : Truthy(metadata[k])

RepliedOpids == { reply.forms[i].opid : i \in DOMAIN reply.forms }

\* C14: a form or standalone group of exactly one field is removed from
\* the detection output exactly when the field has purpose "unknown" and
\* no label text in any channel, data-attribute label and helper text
\* included.
C14_SingleFieldFormRemovedIffUnlabelled ==
  (last.op = "detectForms" /\ last.raises = "none") =>
    \A i \in DOMAIN last.allForms :
      Len(last.allForms[i].fields) = 1 =>
        ( last.allForms[i].opid \notin RepliedOpids
            <=> ( /\ last.allForms[i].fields[1].metadata.fieldPurpose = "unknown"
                  /\ ~HasLabelText(last.allForms[i].fields[1].metadata) ) )


\* C15: two positional-label lookups in a row for one element and one
\* direction return the same result and scan the tree at most once in
\* all, whether the first found a label or none.
C15_SecondLookupScansNothing ==
  last.op = "findPositionalLabel" =>
    /\ last.first = last.second
    /\ last.scans[1] + last.scans[2] <= 1


\* the metadata of the fields reported, form by form
ReportedMetadata(detectedForms_) ==
  [ i \in DOMAIN detectedForms_ |->
      [ j \in DOMAIN detectedForms_[i].fields |->
          [ k \in {"labelLeft", "labelRight", "labelTop"} |->
              detectedForms_[i].fields[j].metadata[k] ] ] ]

\* the tree was mutated after the first request
Mutated == doc \notin Documents

\* C16: the positional labels reported by a request that follows a
\* mutation of the tree are those computed from the tree as it is during
\* that request, as a request starting on a cleared cache computes them,
\* never labels memoized by an earlier request.
C16_LabelsOfThisPassOnly ==
  (last.op = "detectForms" /\ last.raises # "detectAll" /\ passes >= 2 /\ Mutated) =>
    ReportedMetadata(last.allForms)
      = ReportedMetadata(detectAll(doc, EmptyCache, 0, 0).forms)


\* the form element containing the element el, or NoElement
FormOf(el) ==
  LET holds(f) == \E n \in Range(lightTree(f.children)) : n.el = el
  IN  IF \E f \in Range(findFormElements(doc)) : holds(f)
        THEN (CHOOSE f \in Range(findFormElements(doc)) : holds(f)).el
        ELSE NoElement

\* the positions <<form, field>> at which el is reported
Descriptors(el) ==
  UNION { { <<i, j>> : j \in { k \in DOMAIN last.allForms[i].fields :
                                  last.allForms[i].fields[k].element = el } } :
          i \in DOMAIN last.allForms }

\* C20: one detection pass reports every valid field element of the tree,
\* shadow roots included, by exactly one field of exactly one form: the
\* form containing it, else the one group "__form__standalone".
C20_EveryFieldExactlyOnce ==
  (last.op = "detectForms" /\ last.raises # "detectAll") =>
    \A e \in FieldElements(doc) :
      /\ Cardinality(Descriptors(e.el)) = 1
      /\ \A d \in Descriptors(e.el) :
           /\ last.allForms[d[1]].element = FormOf(e.el)
           /\ FormOf(e.el) = NoElement => last.allForms[d[1]].opid = FormStandalone


\* the place of a progress state in the forward order
Rank(state) == CHOOSE k \in DOMAIN ProgressStates : ProgressStates[k] = state

\* C17: the progress states shown during a run go forward in the order
\* idle, detecting, analyzing, matching, showing-preview, filling,
\* completed: no state is shown after a later one, failed excepted.
C17_ProgressGoesForward ==
  \A i, j \in DOMAIN shown :
    (i < j /\ shown[i] # "failed" /\ shown[j] # "failed")
      => Rank(shown[i]) <= Rank(shown[j])

\* C18: completed and failed are terminal: nothing is shown after either.
C18_CompletedAndFailedAreTerminal ==
  \A i \in DOMAIN shown :
    shown[i] \in {"completed", "failed"} => i = Len(shown)


\* String(n) of a counter value
RECURSIVE toDecimal(_)
toDecimal(n) ==
  IF n < 10 THEN <<DIGIT[n + 1]>>
  ELSE toDecimal(n \div 10) \o <<DIGIT[(n % 10) + 1]>>

\* the opid as the template literal writes it: `__${n}`, `__form__${n}`
\* and the literal "__form__standalone"
opidString(opid) ==
  CASE opid[1] = "__" -> <<"_","_">> \o toDecimal(opid[2])
    [] opid[1] = "__form__" -> <<"_","_","f","o","r","m","_","_">> \o toDecimal(opid[2])
    [] opid[1] = "__form__standalone" ->
         <<"_","_","f","o","r","m","_","_","s","t","a","n","d","a","l","o","n","e">>

\* the field opids of one pass, in the order of the forms
PassFieldOpids ==
  LET RECURSIVE collect(_)
      collect(fs) ==
        IF fs = <<>> THEN <<>>
        ELSE [j \in DOMAIN fs[1].fields |-> fs[1].fields[j].opid] \o collect(Tail(fs))
  IN  collect(last.allForms)

IsInjective(s) == \A i, j \in DOMAIN s : s[i] = s[j] => i = j

\* C21: within one detection pass the field opids are pairwise distinct
\* strings "__<n>" whose numbers are the values the counter took during
\* the pass, the form opids are pairwise distinct, and a form element's
\* opid "__form__<n>" is never the standalone sentinel.
C21_OpidsUniqueWithinPass ==
  (last.op = "detectForms" /\ last.raises # "detectAll") =>
    /\ IsInjective([i \in DOMAIN PassFieldOpids |-> opidString(PassFieldOpids[i])])
    /\ \A i \in DOMAIN PassFieldOpids :
         /\ SubSeq(opidString(PassFieldOpids[i]), 1, 2) = <<"_","_">>
         /\ PassFieldOpids[i][1] = "__"
         /\ PassFieldOpids[i][2] < fieldOpidCounter
         /\ PassFieldOpids[i][2] >= fieldOpidCounter - Len(PassFieldOpids)
    /\ IsInjective([i \in DOMAIN last.allForms |-> opidString(last.allForms[i].opid)])
    /\ \A i \in DOMAIN last.allForms :
         last.allForms[i].element # NoElement =>
           /\ last.allForms[i].opid[1] = "__form__"
           /\ opidString(last.allForms[i].opid) # opidString(FormStandalone)

\* a second pass reporting two forms and the standalone group, with
\* fields numbered on from the first pass
C21_Witness ==
  /\ last.op = "detectForms"
  /\ last.raises = "none"
  /\ passes = 2
  /\ Len(last.allForms) >= 2
  /\ Len(PassFieldOpids) >= 3
  /\ \E i \in DOMAIN last.allForms : last.allForms[i].opid = FormStandalone
  /\ \E i \in DOMAIN last.allForms : last.allForms[i].element # NoElement


\* the score of record k of the store for a field
ScoreOf(field, k) == ScoreTable[Scored(field), AllMemories[k]]

\* the records with a score, and the place of one of them in the ranking
\* by score descending, equal scores in record-list order
Candidates(field) == { k \in DOMAIN AllMemories : ScoreOf(field, k) > 0 }
Place(field, k) ==
  1 + Cardinality({ j \in Candidates(field) :
                      \/ ScoreOf(field, j) > ScoreOf(field, k)
                      \/ ScoreOf(field, j) = ScoreOf(field, k) /\ j < k })
RankedAt(field, n) == CHOOSE k \in Candidates(field) : Place(field, k) = n

\* the mapping C22 describes for a field with at least one candidate
RankedMappingIsAsClaimed(field, mapping) ==
  LET top == AllMemories[RankedAt(field, 1)]
      rounded == roundConfidence(ScoreOf(field, RankedAt(field, 1)))
      others == Min(3, Cardinality(Candidates(field)) - 1)
  IN  /\ mapping.confidence = rounded
      /\ mapping.memoryId # Null <=> rounded >= Pct(35)
      /\ IF rounded >= Pct(35)
           THEN mapping.memoryId = top.id /\ mapping.value = top.answer
           ELSE /\ mapping.memoryId = Null /\ mapping.value = NullText
                /\ mapping.reasoning.text = "Low confidence match"
      /\ mapping.alternativeMatches =
           [ n \in 1..others |->
               [ memoryId |-> AllMemories[RankedAt(field, n + 1)].id,
                 value |-> AllMemories[RankedAt(field, n + 1)].answer,
                 confidence |-> roundConfidence(ScoreOf(field, RankedAt(field, n + 1))) ] ]

FallbackRan ==
  /\ call.op = "FallbackMatcher.matchFields"
  /\ ~result.threw
  /\ \A k \in DOMAIN AllMemories : ~categoryRaises(AllMemories[k])

\* C22: FallbackMatcher ranks a field's candidates by score descending,
\* equal scores in record-list order; the top candidate is the primary
\* match exactly when its score rounded to two decimals is at least 0.35,
\* otherwise memoryId and value are null, the confidence is the top
\* candidate's and the reasoning a "Low confidence match"; the next up
\* to 3 candidates are the alternatives in both cases.
C22_TopCandidateIffThreshold ==
  FallbackRan =>
    \A i \in DOMAIN AllFields :
      Candidates(AllFields[i]) # {} =>
        RankedMappingIsAsClaimed(AllFields[i], result.value[i])

\* a field with a primary match and a field whose best of four candidates
\* stays below the threshold, with three alternatives
C22_Witness ==
  /\ FallbackRan
  /\ \E i \in DOMAIN AllFields :
       /\ result.value[i].memoryId = Null
       /\ result.value[i].confidence > 0
       /\ Len(result.value[i].alternativeMatches) >= 2
  /\ \E i \in DOMAIN AllFields :
       /\ result.value[i].memoryId # Null
       /\ Len(result.value[i].alternativeMatches) >= 1


\* C23: purposeScore is 0 for a field of purpose "unknown" and otherwise
\* min(1, 0.6 + 0.2 * k), k >= 0 being the number of keywords of the
\* purpose found in the record's question and category.
C23_PurposeScoreFromSixTenths ==
  call.op = "FallbackMatcher.matchFields" =>
    \A i \in DOMAIN AllFields : \A k \in DOMAIN AllMemories :
      scorePurposeMatch(AllFields[i], AllMemories[k])
        = IF AllFields[i].purpose = "unknown" THEN 0
          ELSE Min(One, Pct(60) + Cardinality(matchedKeywords(AllFields[i], AllMemories[k]))
                                    * Pct(20))


\* C23 (amended): purposeScore is 0 for a field of purpose "unknown" and
\* for a record in which no keyword of the purpose occurs; with k >= 1
\* keywords found it is min(1, 0.6 + 0.2 * k).
C23_PurposeScoreFromFirstKeyword ==
  call.op = "FallbackMatcher.matchFields" =>
    \A i \in DOMAIN AllFields : \A k \in DOMAIN AllMemories :
      LET found == Cardinality(matchedKeywords(AllFields[i], AllMemories[k]))
      IN  scorePurposeMatch(AllFields[i], AllMemories[k])
            = IF AllFields[i].purpose = "unknown" \/ found = 0 THEN 0
              ELSE IF found = 1 THEN Pct(80)
              ELSE One

\* one call scoring a record without keyword, a record with one or two
\* keywords and a record with three (the cap) for a field of known purpose
C23_Witness ==
  /\ call.op = "FallbackMatcher.matchFields"
  /\ \E i \in DOMAIN AllFields :
       /\ AllFields[i].purpose # "unknown"
       /\ \E k \in DOMAIN AllMemories :
            Cardinality(matchedKeywords(AllFields[i], AllMemories[k])) = 0
       /\ \E k \in DOMAIN AllMemories :
            Cardinality(matchedKeywords(AllFields[i], AllMemories[k])) \in {1, 2}
       /\ \E k \in DOMAIN AllMemories :
            Cardinality(matchedKeywords(AllFields[i], AllMemories[k])) >= 3


NodeOf(el) == CHOOSE node \in Range(composedTree(doc)) : node.el = el

\* the geometry search of one direction on its own
DirectionalLabel(element, direction) ==
  scanned(EmptyCache, element, direction, scanCandidates(doc, element, direction)).label

\* C24: labelLeft, labelRight and labelTop of a reported field are each
\* the result of the geometry search of their own direction, null when
\* no candidate qualifies in that direction.
C24_EachDirectionOnItsOwn ==
  (last.op = "detectForms" /\ last.raises # "detectAll" /\ passes = 1) =>
    \A i \in DOMAIN last.allForms : \A j \in DOMAIN last.allForms[i].fields :
      LET field == last.allForms[i].fields[j]
      IN  /\ field.metadata.labelLeft = DirectionalLabel(NodeOf(field.element), "left")
          /\ field.metadata.labelRight = DirectionalLabel(NodeOf(field.element), "right")
          /\ field.metadata.labelTop = DirectionalLabel(NodeOf(field.element), "top")


\* the accepted text nodes of the tree, in encounter order, with their
\* distance to the element in the direction
AcceptedTexts(element, direction) ==
  SelectSeq(lightTree(doc),
    LAMBDA parent :
      /\ parent.text # NullText
      /\ acceptTextNode(parent, direction)
      /\ calculateDistance(element.rect, parent.rect, direction) # NoDistance
      /\ calculateDistance(element.rect, parent.rect, direction)
           <= (IF direction = "top" THEN 100 ELSE 200))

\* the nearest of them, the first encountered among equals
NearestText(element, direction) ==
  LET texts == AcceptedTexts(element, direction)
      distance(n) == calculateDistance(element.rect, texts[n].rect, direction)
  IN  IF texts = <<>> THEN NullText
      ELSE cleanText(texts[CHOOSE n \in DOMAIN texts :
                             \A m \in DOMAIN texts :
                               distance(n) < distance(m)
                                 \/ (distance(n) = distance(m) /\ n <= m)].text)

\* C25: a positional-label search returns the text of the nearest
\* accepted text node whose distance does not exceed the threshold (200
\* to the left and right, 100 to the top), the first encountered among
\* equals, however many nodes qualify.
C25_NearestWithinThreshold ==
  (last.op = "findPositionalLabel" /\ last.scans[1] = 1) =>
    last.first = NearestText(NodeOf(last.element), last.direction)


\* C26: every matcher invocation made by processForms receives at most
\* MAX_FIELDS_PER_PAGE fields and at most MAX_MEMORIES_FOR_MATCHING records.
C26_MatcherInputsCapped ==
  (call.op = "AutofillService.processForms" /\ handed.matchers # {}) =>
    /\ Len(handed.fields) <= MAX_FIELDS_PER_PAGE
    /\ Len(handed.memories) <= MAX_MEMORIES_FOR_MATCHING


\* the mapping names no record and carries no value, or names a record of
\* the list, carries that record's answer and reaches the minimum confidence
MappingIsSound(mapping, memories) ==
  /\ (mapping.memoryId = Null) <=> (mapping.value = NullText)
  /\ mapping.memoryId # Null =>
       /\ \E i \in DOMAIN memories :
            /\ memories[i].id = mapping.memoryId
            /\ memories[i].answer = mapping.value
       /\ mapping.confidence >= MIN_MATCH_CONFIDENCE

PasswordOpids ==
  { flatMapFields(forms)[i].opid :
      i \in { j \in DOMAIN flatMapFields(forms) :
                flatMapFields(forms)[j].metadata.fieldType = "password" } }

\* C28: the mapping list processForms returns, and the preview payload built
\* from it, holds no mapping whose fieldOpid is that of a password-type
\* field, whichever strategy ran and whatever the matcher returned.
C28_NoPasswordMapping ==
  call.op \in {"AutofillService.processForms", "AutofillService.buildPreviewPayload"} =>
    \A i \in DOMAIN result.mappings : result.mappings[i].fieldOpid \notin PasswordOpids

\* the model matched the password field, which is the first of two fields,
\* to r1 with confidence 0.9; the list returned holds the other field only
C28_Witness ==
  /\ call.op = "AutofillService.processForms"
  /\ handed.matchers = {"AIMatcher"}
  /\ call.outcome = "fewer"
  /\ ModelCallSucceeded
  /\ FieldOpId(0) \in PasswordOpids
  /\ Len(flatMapFields(forms)) = 2
  /\ FieldOpId(1) \notin PasswordOpids
  /\ result.success
  /\ Len(result.mappings) = 1
  /\ result.mappings[1].fieldOpid = FieldOpId(1)


\* the steps of startAutofillOnActiveTab are awaited calls that return or
\* raise: a run that can take a step takes one
RunLiveSpec == RunSpec /\ WF_vars(RunNext)

\* the preview payload reached AutopilotManager.processAutofillData
DeliveredToAutopilot == run.autopilotMode /\ run.delivered

\* completed or failed has been shown
TerminalReported == \E i \in DOMAIN shown : shown[i] \in {"completed", "failed"}

\* C29: in autopilot mode a run that delivers a preview payload to
\* processAutofillData eventually shows completed or failed, also when the
\* mapping list is empty or no mapping meets the threshold (runs in which a
\* message, a session call or a display fails after the delivery aside).
C29_AutopilotReachesTerminal ==
  [](DeliveredToAutopilot => <>(TerminalReported \/ run.faulted))


\* the element the detector recorded for an opid in the latest pass
RecordedElement(opid) ==
  LET field ==
        CHOOSE f \in UNION { Range(formCache[i].fields) : i \in DOMAIN formCache } :
          f.opid = opid
  IN  field.element

\* C30: when executeAutofill writes the value of a mapping for opid X, the
\* element written to is the one the detector recorded for X in the latest
\* detection pass, and it is never a password element.
C30_FillWritesTheDetectedElement ==
  last.op = "executeAutofill" =>
    \A w \in last.writes :
      w.element # NoElement =>
        /\ w.element = RecordedElement(w.opid)
        /\ NodeOf(w.element).attrs.type # "password"
====
